---- MODULE Spec2Model ----
(***************************************************************************)
(* The scraper registry (package collector: scraperRegistry, registryMu,   *)
(* registerScraper, mustRegisterScraperWithDefaults, LookupScraper,        *)
(* IsScraperEnabled, SetScraperEnabled) and the heartbeat scraper          *)
(* (ScrapeHeartbeat: Args, Configure, Scrape) as a state machine of        *)
(* goroutines.  A goroutine is at a program point pc[t] with its locals in *)
(* frame[t]; ret[t] is what its last call returned.                        *)
(***************************************************************************)
EXTENDS Integers, Sequences, FiniteSets, TLC

\* ------------------------------------------------------------ bounds

\* registerScraper calls (direct or through mustRegisterScraperWithDefaults)
\* entered in one behaviour.
MaxRegCalls == 2

\* Arguments of one Configure call issued by a client.
MaxArgs == 3

\* Rows of the result set the database returns to one Scrape.
MaxRows == 2

\* Capacity of the output channel handed to Scrape.
ChanCap == 1

\* Readers a client counts into a scraper's RWMutex through RLock and TryRLock.
MaxReaders == 2

\* ------------------------------------------------------------ universe

Threads == {"t1", "t2"}

\* Two values of type *ScrapeHeartbeat and a scraper of another type.
HeartbeatScrapers == {"hbA", "hbB"}
PlainScrapers == {"gs"}
Scrapers == HeartbeatScrapers \cup PlainScrapers

\* A Configurable scraper with heartbeat's Configure whose declared defaults
\* do not validate, and a scraper of another type named "heartbeat.utc".
BrokenScrapers == {"hbBad"}
ConfigurableScrapers == HeartbeatScrapers \cup BrokenScrapers
CollidingScrapers == {"hu"}
EveryScraper == Scrapers \cup BrokenScrapers \cup CollidingScrapers

\* nil of type Scraper.
NilScraper == "nil"

\* (*ScrapeHeartbeat).Name; the other scrapers have names of their own.
Name(s) ==
    IF s \in ConfigurableScrapers THEN "heartbeat"
    ELSE IF s \in CollidingScrapers THEN "heartbeat.utc"
    ELSE "global_status"

\* The names callers pass: every scraper's name and one that no scraper has.
LookupNames == {Name(s) : s \in Scrapers} \cup {"nosuch"}
EveryName == {Name(s) : s \in EveryScraper} \cup {"nosuch"}

\* ------------------------------------------------------------ argument model

StringValue(x) == [tag |-> "string", v |-> x]
BoolValue(x) == [tag |-> "bool", v |-> x]
NumValue(x) == [tag |-> "numeric", v |-> x]

heartbeatDatabase == "database"
heartbeatTable == "table"
heartbeatUtc == "utc"

\* heartbeatArgDefs: name and defaultValue of each argDef (help left out).
heartbeatArgDefs ==
    << [name |-> heartbeatDatabase, defaultValue |-> StringValue("heartbeat")],
       [name |-> heartbeatTable, defaultValue |-> StringValue("heartbeat")],
       [name |-> heartbeatUtc, defaultValue |-> BoolValue(FALSE)] >>

\* The error values.  nil is NoError.
NoError == [kind |-> "nil", scraper |-> "", arg |-> ""]
wrongArgTypeError(scraper, argName, value) ==
    [kind |-> "wrong-type", scraper |-> scraper, arg |-> argName]
unknownArgError(scraper, argName) ==
    [kind |-> "unknown-argument", scraper |-> scraper, arg |-> argName]
DuplicateError(name) ==
    [kind |-> "already-registered", scraper |-> name, arg |-> ""]

\* s.(Configurable): the scraper has ArgDefinitions and Configure.
IsConfigurable(s) == s \in ConfigurableScrapers

\* cfg.ArgDefinitions() of a Configurable scraper.
\* Those of a broken scraper are declared defaults of which the second has
\* the wrong variant.
ArgDefinitions(s) ==
    IF s \in BrokenScrapers
    THEN << [name |-> heartbeatDatabase, defaultValue |-> StringValue("heartbeat")],
            [name |-> heartbeatUtc, defaultValue |-> StringValue("false")],
            [name |-> heartbeatTable, defaultValue |-> StringValue("heartbeat")] >>
    ELSE heartbeatArgDefs

\* defaultArgs(defs): one Arg per argDef, carrying its default.
defaultArgs(defs) ==
    [k \in 1..Len(defs) |-> [name |-> defs[k].name, value |-> defs[k].defaultValue]]

\* The zero value of the configuration fields of ScrapeHeartbeat{}.
ZeroConfig == [database |-> "", table |-> "", utc |-> FALSE]

\* ------------------------------------------------------------ sync.RWMutex

\* const rwmutexMaxReaders = 1 << 30.
rwmutexMaxReaders == 2^30

\* The RWMutex embedded in ScrapeHeartbeat (line 89), zero value.  w is the
\* writers' mutex rw.w: the goroutine that locked it, or "free"; readerCount
\* the readers counted, lowered by rwmutexMaxReaders while a writer is
\* announced; readerWait the readers an announced writer has still to see
\* leave; writerSem and readerSem the wake-ups posted to the sleeping writer
\* and to sleeping readers.
ZeroRWMutex ==
    [w |-> "free", readerCount |-> 0, readerWait |-> 0, writerSem |-> 0, readerSem |-> 0]

\* ------------------------------------------------------------ state

VARIABLES
    scraperRegistry,  \* the map name -> *scraperEntry
    registryMu,       \* the goroutine holding registryMu, or "free"
    config,           \* per scraper: database, table, utc
    enabledFlag,      \* per scraper: the atomic.Bool enabled
    RWMutex,          \* per scraper: its embedded sync.RWMutex
    readLocks,        \* history: per goroutine and scraper, the read locks it took that are not given back
    pc,               \* per goroutine: its program point
    frame,            \* per goroutine: the locals of its call
    ret,              \* per goroutine: what its last call returned
    fatal,            \* "none", or why the process died
    ch,               \* the output channel's buffer
    regStarted,       \* history: per scraper, the registerScraper calls entered
    regNil,           \* history: per scraper, the registerScraper calls that returned nil
    regDup,           \* history: per scraper, the registerScraper calls that returned the duplicate-name error
    lastSet,          \* history: per name, the value of the last SetScraperEnabled since the entry was written
    lastConfigured,   \* history: per scraper, who configured it last: "never", "bootstrap" (line 85) or "client"
    lastBinder,       \* history: per flag name, the scraper whose registration wrote a binding of that name last
    ctx               \* the context passed to Scrape: "live" or "cancelled"

vars == << scraperRegistry, registryMu, config, enabledFlag, RWMutex, readLocks,
           pc, frame, ret, fatal, ch, regStarted, regNil, regDup, lastBinder, lastSet, lastConfigured,
           ctx >>

regHistory == << regStarted, regNil, regDup, lastBinder >>
registryVars == << scraperRegistry, registryMu, regHistory, lastSet >>
scraperVars == << config, enabledFlag, RWMutex, readLocks, lastConfigured >>

NoFrame == [op |-> "none"]
NoRet == [op |-> "none"]

\* ------------------------------------------------------------ registry: the code's computations

\* makeFlagsFromScraper(s, enabled): one enable flag, and one value flag per
\* argument, named from the scraper's name and the argument's name; each
\* binding is a *kingpin.FlagClause of its own.
makeFlagsFromScraper(s, enabled) ==
    LET args == IF IsConfigurable(s)
                THEN {ArgDefinitions(s)[k].name : k \in 1..Len(ArgDefinitions(s))} ELSE {}
        \* the name as its dot-separated parts
        parts == IF s \in CollidingScrapers THEN << "heartbeat", "utc" >> ELSE << Name(s) >>
        prefix == << "collect" >> \o parts
        names == {prefix} \cup {Append(prefix, a) : a \in args}
    IN  [f \in names |-> [scraper |-> s, flag |-> f, enabled |-> enabled]]

\* registerScraper, line 95: the name is already a key of the map.
MutAlreadyRegistered(reg, s) == FALSE
alreadyRegistered(reg, s) == Name(s) \in DOMAIN reg

\* registerScraper, lines 98-102: the entry written.
newEntry(s, enabled) ==
    [enabled |-> enabled, flags |-> makeFlagsFromScraper(s, enabled), scraper |-> s]

\* registerScraper, line 98: scraperRegistry[s.Name()] = entry.
MutInsertEntry(reg, s, enabled) ==
    [n \in DOMAIN reg \cup {"heartbeat"} |->
        IF n = "heartbeat" THEN newEntry(s, enabled) ELSE reg[n]]
insertEntry(reg, s, enabled) ==
    [n \in DOMAIN reg \cup {Name(s)} |->
        IF n = Name(s) THEN newEntry(s, enabled) ELSE reg[n]]

\* LookupScraper(name).
LookupScraper(reg, name) ==
    IF name \notin DOMAIN reg THEN [scraper |-> NilScraper, found |-> FALSE]
    ELSE [scraper |-> reg[name].scraper, found |-> TRUE]

\* IsScraperEnabled(name), lines 48-52.
IsScraperEnabled(reg, name) ==
    IF name \notin DOMAIN reg THEN FALSE ELSE reg[name].enabled

\* SetScraperEnabled(name, enabled), lines 77-80.
MutSetScraperEnabled(reg, name, enabled) ==
    IF name \in DOMAIN reg THEN [reg EXCEPT ![name].enabled = TRUE] ELSE reg
MutSetScraperEnabledAll(reg, name, enabled) ==
    IF name \in DOMAIN reg THEN [n \in DOMAIN reg |-> [reg[n] EXCEPT !.enabled = enabled]] ELSE reg
MutSetScraperEnabledInsert(reg, name, enabled) ==
    [n \in DOMAIN reg \cup {name} |->
        IF n = name
        THEN IF n \in DOMAIN reg THEN [reg[n] EXCEPT !.enabled = enabled]
             ELSE [enabled |-> enabled, flags |-> << >>, scraper |-> NilScraper]
        ELSE reg[n]]
SetScraperEnabled(reg, name, enabled) ==
    IF name \in DOMAIN reg THEN [reg EXCEPT ![name].enabled = enabled] ELSE reg

\* ------------------------------------------------------------ heartbeat: the code's computations

\* (*ScrapeHeartbeat).Args, lines 126-139: the snapshot returned.
Args(cfg) ==
    << [name |-> heartbeatDatabase, value |-> StringValue(cfg.database)],
       [name |-> heartbeatTable, value |-> StringValue(cfg.table)],
       [name |-> heartbeatUtc, value |-> BoolValue(cfg.utc)] >>

\* One case of Configure's switch: the field is set when the value has the
\* variant wanted, and the wrong-type error is returned when it has not.
setField(cfg, field, variant, arg) ==
    IF arg.value.tag = variant
    THEN [config |-> [cfg EXCEPT ![field] = arg.value.v], err |-> NoError]
    ELSE [config |-> cfg, err |-> wrongArgTypeError("heartbeat", arg.name, arg.value)]

MutConfigureArgWrongField(cfg, arg) ==
    IF arg.name = heartbeatDatabase THEN setField(cfg, "database", "string", arg)
    ELSE IF arg.name = heartbeatTable THEN setField(cfg, "database", "string", arg)
    ELSE IF arg.name = heartbeatUtc THEN setField(cfg, "utc", "bool", arg)
    ELSE [config |-> cfg, err |-> unknownArgError("heartbeat", arg.name)]

MutConfigureArgIgnoreUnknown(cfg, arg) ==
    IF arg.name = heartbeatDatabase THEN setField(cfg, "database", "string", arg)
    ELSE IF arg.name = heartbeatTable THEN setField(cfg, "table", "string", arg)
    ELSE IF arg.name = heartbeatUtc THEN setField(cfg, "utc", "bool", arg)
    ELSE [config |-> cfg, err |-> NoError]

\* (*ScrapeHeartbeat).Configure, lines 147-168: one turn of the loop on arg.
\* The result is the configuration after it and the error it returns (nil: go on).
configureArg(cfg, arg) ==
    IF arg.name = heartbeatDatabase THEN setField(cfg, "database", "string", arg)
    ELSE IF arg.name = heartbeatTable THEN setField(cfg, "table", "string", arg)
    ELSE IF arg.name = heartbeatUtc THEN setField(cfg, "utc", "bool", arg)
    ELSE [config |-> cfg, err |-> unknownArgError("heartbeat", arg.name)]

\* ------------------------------------------------------------ goroutines

NoFatal == [kind |-> "none", err |-> NoError]
Alive == fatal.kind = "none"

\* A call made by a client returns r.
Return(t, r) ==
    /\ pc' = [pc EXCEPT ![t] = "idle"]
    /\ frame' = [frame EXCEPT ![t] = NoFrame]
    /\ ret' = [ret EXCEPT ![t] = r]

\* panic(fmt.Sprintf("bug: %v", err)), lines 86 and 90: nothing recovers it.
Panic(t, err) ==
    /\ pc' = [pc EXCEPT ![t] = "panicked"]
    /\ fatal' = [kind |-> "panic", err |-> err]
    /\ UNCHANGED << frame, ret >>

\* fatal("sync: ..."): the runtime ends the process; the call does not return.
SyncFatal(what) ==
    /\ fatal' = [kind |-> what, err |-> NoError]
    /\ UNCHANGED << pc, frame, ret >>

RECURSIVE SumOver(_, _)
SumOver(f, S) ==
    IF S = {} THEN 0
    ELSE LET x == CHOOSE y \in S : TRUE IN f[x] + SumOver(f, S \ {x})

\* registerScraper calls entered, and those mustRegisterScraperWithDefaults
\* has still to make.
RegCallsStarted == SumOver(regStarted, EveryScraper)
RegCallsAhead ==
    Cardinality({t \in Threads : frame[t].op = "Configure" /\ frame[t].caller = "must"})

\* Entering registerScraper(s, enabled), from a client or from
\* mustRegisterScraperWithDefaults (line 89).
EnterRegister(t, s, enabled, caller) ==
    /\ pc' = [pc EXCEPT ![t] = "reg_check"]
    /\ frame' = [frame EXCEPT ![t] =
                    [op |-> "registerScraper", s |-> s, enabled |-> enabled, caller |-> caller]]
    /\ regStarted' = [regStarted EXCEPT ![s] = @ + 1]

\* registerScraper returns err to its caller: to the client, or to line 89,
\* where an error panics.
RegisterReturn(t, err) ==
    IF frame[t].caller = "top"
    THEN /\ Return(t, [op |-> "registerScraper", s |-> frame[t].s,
                       enabled |-> frame[t].enabled, err |-> err])
         /\ UNCHANGED fatal
    ELSE IF err # NoError
    THEN Panic(t, err)
    ELSE /\ Return(t, [op |-> "mustRegisterScraperWithDefaults", s |-> frame[t].s,
                       enabled |-> frame[t].enabled, err |-> err])
         /\ UNCHANGED fatal

\* ------------------------------------------------------------ registerScraper

RegisterCall(t, s, enabled) ==
    /\ Alive
    /\ pc[t] = "idle"
    /\ RegCallsStarted + RegCallsAhead < MaxRegCalls
    /\ EnterRegister(t, s, enabled, "top")
    /\ ret' = [ret EXCEPT ![t] = NoRet]
    /\ UNCHANGED << scraperRegistry, registryMu, regNil, regDup, lastBinder, lastSet, scraperVars, fatal, ch, ctx >>

\* Line 95: the lookup, and the return of line 96 when the name is taken.
RegisterCheck(t) ==
    /\ Alive
    /\ pc[t] = "reg_check"
    /\ IF alreadyRegistered(scraperRegistry, frame[t].s)
       THEN /\ regDup' = [regDup EXCEPT ![frame[t].s] = @ + 1]
            /\ RegisterReturn(t, DuplicateError(Name(frame[t].s)))
       ELSE /\ pc' = [pc EXCEPT ![t] = "reg_write"]
            /\ UNCHANGED << frame, ret, fatal, regDup >>
    /\ UNCHANGED << scraperRegistry, registryMu, regStarted, regNil, lastBinder, lastSet, scraperVars, ch, ctx >>

\* Lines 98-103: the insertion, and return nil.
RegisterWrite(t) ==
    /\ Alive
    /\ pc[t] = "reg_write"
    /\ scraperRegistry' = insertEntry(scraperRegistry, frame[t].s, frame[t].enabled)
    /\ regNil' = [regNil EXCEPT ![frame[t].s] = @ + 1]
    /\ lastBinder' = LET new == DOMAIN makeFlagsFromScraper(frame[t].s, frame[t].enabled)
                     IN  [f \in DOMAIN lastBinder \cup new |->
                            IF f \in new THEN frame[t].s ELSE lastBinder[f]]
    /\ lastSet' = [lastSet EXCEPT ![Name(frame[t].s)] = {}]
    /\ RegisterReturn(t, NoError)
    /\ UNCHANGED << registryMu, regStarted, regDup, scraperVars, ch, ctx >>

\* The map is read and written outside registryMu.  While one goroutine is
\* about to write it and another about to read or write it, the two accesses
\* may overlap, and the runtime may then end the process ("fatal error:
\* concurrent map writes", "concurrent map read and map write").
MapRace ==
    LET MapReadPoints == {"reg_check", "lookup", "is_body", "set_body", "flags_iter", "all_iter"}
        MapWritePoints == {"reg_write"}
    IN  \E t1 \in Threads, t2 \in Threads :
            /\ t1 # t2
            /\ pc[t1] \in MapWritePoints
            /\ pc[t2] \in MapReadPoints \cup MapWritePoints

RuntimeFatal ==
    /\ Alive
    /\ MapRace
    /\ fatal' = [kind |-> "concurrent-map-access", err |-> NoError]
    /\ UNCHANGED << registryVars, scraperVars, pc, frame, ret, ch, ctx >>

\* ------------------------------------------------------------ LookupScraper

LookupCall(t, name) ==
    /\ Alive
    /\ pc[t] = "idle"
    /\ pc' = [pc EXCEPT ![t] = "lookup"]
    /\ frame' = [frame EXCEPT ![t] = [op |-> "LookupScraper", name |-> name]]
    /\ ret' = [ret EXCEPT ![t] = NoRet]
    /\ UNCHANGED << registryVars, scraperVars, fatal, ch, ctx >>

\* Lines 66-70.
LookupRead(t) ==
    /\ Alive
    /\ pc[t] = "lookup"
    /\ LET r == LookupScraper(scraperRegistry, frame[t].name)
       IN  Return(t, [op |-> "LookupScraper", name |-> frame[t].name,
                      scraper |-> r.scraper, found |-> r.found])
    /\ UNCHANGED << registryVars, scraperVars, fatal, ch, ctx >>

\* ------------------------------------------------------------ IsScraperEnabled, SetScraperEnabled

\* IsScraperEnabled(name) is called; line 45: registryMu.Lock().
IsEnabledLock(t, name) ==
    /\ Alive
    /\ pc[t] = "idle"
    /\ registryMu = "free"
    /\ registryMu' = t
    /\ pc' = [pc EXCEPT ![t] = "is_body"]
    /\ frame' = [frame EXCEPT ![t] = [op |-> "IsScraperEnabled", name |-> name]]
    /\ ret' = [ret EXCEPT ![t] = NoRet]
    /\ UNCHANGED << scraperRegistry, regHistory, lastSet, scraperVars, fatal, ch, ctx >>

\* An IsScraperEnabled that returns without the deferred Unlock.
MutIsEnabledBodyKeepsLock(t) ==
    /\ Alive
    /\ pc[t] = "is_body"
    /\ Return(t, [op |-> "IsScraperEnabled", name |-> frame[t].name,
                  result |-> IsScraperEnabled(scraperRegistry, frame[t].name),
                  lastSet |-> lastSet[frame[t].name]])
    /\ UNCHANGED << scraperRegistry, registryMu, regHistory, lastSet, scraperVars, fatal, ch, ctx >>

\* Lines 48-52, and the deferred Unlock.
IsEnabledBody(t) ==
    /\ Alive
    /\ pc[t] = "is_body"
    /\ Return(t, [op |-> "IsScraperEnabled", name |-> frame[t].name,
                  result |-> IsScraperEnabled(scraperRegistry, frame[t].name),
                  lastSet |-> lastSet[frame[t].name]])
    /\ registryMu' = "free"
    /\ UNCHANGED << scraperRegistry, regHistory, lastSet, scraperVars, fatal, ch, ctx >>

\* SetScraperEnabled(name, enabled) is called; line 74: registryMu.Lock().
SetEnabledLock(t, name, enabled) ==
    /\ Alive
    /\ pc[t] = "idle"
    /\ registryMu = "free"
    /\ registryMu' = t
    /\ pc' = [pc EXCEPT ![t] = "set_body"]
    /\ frame' = [frame EXCEPT ![t] = [op |-> "SetScraperEnabled", name |-> name, enabled |-> enabled]]
    /\ ret' = [ret EXCEPT ![t] = NoRet]
    /\ UNCHANGED << scraperRegistry, regHistory, lastSet, scraperVars, fatal, ch, ctx >>

\* Lines 77-80, and the deferred Unlock.
SetEnabledBody(t) ==
    /\ Alive
    /\ pc[t] = "set_body"
    /\ scraperRegistry' = SetScraperEnabled(scraperRegistry, frame[t].name, frame[t].enabled)
    /\ lastSet' = IF frame[t].name \in DOMAIN scraperRegistry
                  THEN [lastSet EXCEPT ![frame[t].name] = {frame[t].enabled}]
                  ELSE lastSet
    /\ Return(t, [op |-> "SetScraperEnabled", name |-> frame[t].name,
                  enabled |-> frame[t].enabled,
                  registered |-> frame[t].name \in DOMAIN scraperRegistry])
    /\ registryMu' = "free"
    /\ UNCHANGED << regHistory, scraperVars, fatal, ch, ctx >>

\* ------------------------------------------------------------ the registry's specification

Init ==
    /\ scraperRegistry = << >>
    /\ registryMu = "free"
    /\ config = [s \in ConfigurableScrapers |-> ZeroConfig]
    /\ enabledFlag = [s \in ConfigurableScrapers |-> FALSE]
    /\ RWMutex = [s \in ConfigurableScrapers |-> ZeroRWMutex]
    /\ readLocks = [t \in Threads |-> [s \in ConfigurableScrapers |-> 0]]
    /\ pc = [t \in Threads |-> "idle"]
    /\ frame = [t \in Threads |-> NoFrame]
    /\ ret = [t \in Threads |-> NoRet]
    /\ fatal = NoFatal
    /\ ch = << >>
    /\ regStarted = [s \in EveryScraper |-> 0]
    /\ regNil = [s \in EveryScraper |-> 0]
    /\ regDup = [s \in EveryScraper |-> 0]
    /\ lastSet = [n \in EveryName |-> {}]
    /\ lastConfigured = [s \in ConfigurableScrapers |-> "never"]
    /\ lastBinder = << >>
    /\ ctx = "live"

Next ==
    \/ \E t \in Threads, s \in Scrapers, e \in BOOLEAN : RegisterCall(t, s, e)
    \/ \E t \in Threads : RegisterCheck(t)
    \/ \E t \in Threads : RegisterWrite(t)
    \/ RuntimeFatal
    \/ \E t \in Threads, n \in LookupNames : LookupCall(t, n)
    \/ \E t \in Threads : LookupRead(t)
    \/ \E t \in Threads, n \in LookupNames : IsEnabledLock(t, n)
    \/ \E t \in Threads : IsEnabledBody(t)
    \/ \E t \in Threads, n \in LookupNames, e \in BOOLEAN : SetEnabledLock(t, n, e)
    \/ \E t \in Threads : SetEnabledBody(t)

Spec == Init /\ [][Next]_vars

\* ------------------------------------------------------------ claims about the registry

\* registerScraper calls entered for, and returned nil for, scrapers named n.
StartedFor(n) == SumOver(regStarted, {s \in Scrapers : Name(s) = n})
NilFor(n) == SumOver(regNil, {s \in Scrapers : Name(s) = n})

\* No two registerScraper calls so far were for the same name.
DistinctNames == \A n \in LookupNames : StartedFor(n) <= 1

\* C1: as long as the registerScraper calls have pairwise distinct names, no
\* call has returned an error, the registry's keys are exactly the names whose
\* call returned nil, LookupScraper of such a name returns the scraper that was
\* registered with found = true, and LookupScraper of any other name returns
\* found = false.
C1_DistinctNamesAllRegistered ==
    DistinctNames =>
        /\ \A s \in Scrapers : regDup[s] = 0
        /\ \A t \in Threads : ret[t].op = "registerScraper" => ret[t].err = NoError
        /\ DOMAIN scraperRegistry = {Name(s) : s \in {x \in Scrapers : regNil[x] > 0}}
        /\ \A s \in Scrapers :
              regNil[s] > 0 =>
                  LookupScraper(scraperRegistry, Name(s)) = [scraper |-> s, found |-> TRUE]
        /\ \A n \in LookupNames :
              NilFor(n) = 0 =>
                  LookupScraper(scraperRegistry, n) = [scraper |-> NilScraper, found |-> FALSE]

C1_Witness ==
    /\ DistinctNames
    /\ regNil["hbA"] = 1
    /\ regNil["gs"] = 1
    /\ \E t \in Threads :
          ret[t] = [op |-> "LookupScraper", name |-> "heartbeat", scraper |-> "hbA", found |-> TRUE]

\* C2: a registerScraper call that finds its name registered returns the
\* duplicate-name error and leaves the whole registry (the existing entry's
\* scraper, enabled flag and flags, and every other entry) as it was.
C2_DuplicateRejectedUnchanged ==
    [][\A t \in Threads :
          (/\ pc[t] = "reg_check"
           /\ pc'[t] # "reg_check"
           /\ Name(frame[t].s) \in DOMAIN scraperRegistry)
          => /\ scraperRegistry' = scraperRegistry
             /\ ret'[t].op = "registerScraper"
             /\ ret'[t].s = frame[t].s
             /\ ret'[t].err = DuplicateError(Name(frame[t].s))]_vars

C2_Witness ==
    \E t \in Threads :
        /\ ret[t].op = "registerScraper"
        /\ ret[t].s = "hbB"
        /\ ret[t].err = DuplicateError("heartbeat")
        /\ "heartbeat" \in DOMAIN scraperRegistry
        /\ scraperRegistry["heartbeat"].scraper = "hbA"
        /\ scraperRegistry["heartbeat"].enabled # ret[t].enabled
        /\ regNil["hbB"] = 0

\* C3: of the registerScraper calls for scrapers sharing a name, at most one
\* returns nil (the others return the duplicate-name error), and the entry of
\* that name holds the scraper of the call that returned nil.
C3_OneRegistrationPerName ==
    \A n \in DOMAIN scraperRegistry :
        /\ NilFor(n) <= 1
        /\ regNil[scraperRegistry[n].scraper] = 1

\* C4: IsScraperEnabled(name) returns the value of the last SetScraperEnabled
\* on that registered name, when there was one since the entry was written.
C4_SetThenIsReturnsValue ==
    \A t \in Threads :
        (ret[t].op = "IsScraperEnabled" /\ ret[t].lastSet # {})
        => ret[t].result \in ret[t].lastSet

C4_Witness ==
    \E t \in Threads, u \in Threads :
        /\ ret[t].op = "IsScraperEnabled"
        /\ ret[t].name = "heartbeat"
        /\ ret[t].lastSet = {FALSE}
        /\ ret[t].result = FALSE
        /\ regNil["gs"] = 1
        /\ ret[u] = [op |-> "SetScraperEnabled", name |-> "heartbeat",
                     enabled |-> FALSE, registered |-> TRUE]

\* C5: SetScraperEnabled on a name that is not registered ends normally,
\* leaves the registry as it was (no entry created, none changed), and
\* IsScraperEnabled of that name is still false.
C5_SetUnknownIsNoOp ==
    [][\A t \in Threads :
          (/\ pc[t] = "set_body"
           /\ pc'[t] # "set_body"
           /\ frame[t].name \notin DOMAIN scraperRegistry)
          => /\ scraperRegistry' = scraperRegistry
             /\ fatal' = NoFatal
             /\ ret'[t].op = "SetScraperEnabled"
             /\ IsScraperEnabled(scraperRegistry', frame[t].name) = FALSE]_vars

C5_Witness ==
    \E t \in Threads, u \in Threads :
        /\ ret[t] = [op |-> "SetScraperEnabled", name |-> "nosuch",
                     enabled |-> TRUE, registered |-> FALSE]
        /\ ret[u].op = "IsScraperEnabled"
        /\ ret[u].name = "nosuch"
        /\ ret[u].result = FALSE
        /\ DOMAIN scraperRegistry # {}

\* ------------------------------------------------------------ Configure, Args

\* Entering s.Configure(args...), from a client or from
\* mustRegisterScraperWithDefaults (line 85), which passes enabled along; the
\* call starts with s.Lock() (line 144).
EnterConfigure(t, s, args, caller, enabled) ==
    /\ pc' = [pc EXCEPT ![t] = "Lock.w"]
    /\ frame' = [frame EXCEPT ![t] =
                    [op |-> "Configure", s |-> s, args |-> args, k |-> 1,
                     pre |-> config[s], err |-> NoError, r |-> 0, i |-> 0,
                     caller |-> caller, enabled |-> enabled]]
    /\ ret' = [ret EXCEPT ![t] = NoRet]

ConfigureLock(t, s, args) ==
    /\ Alive
    /\ pc[t] = "idle"
    /\ EnterConfigure(t, s, args, "top", FALSE)
    /\ UNCHANGED << registryVars, scraperVars, fatal, ch, ctx >>

\* A return from Configure whose error line 85 drops.
MutConfigureReturnDropError(t, err) ==
    IF frame[t].caller = "top"
    THEN /\ Return(t, [op |-> "Configure", s |-> frame[t].s, args |-> frame[t].args,
                       pre |-> frame[t].pre, post |-> config[frame[t].s],
                       k |-> frame[t].k, err |-> err])
         /\ UNCHANGED << fatal, regStarted >>
    ELSE /\ EnterRegister(t, frame[t].s, frame[t].enabled, "must")
         /\ UNCHANGED << fatal, ret >>

\* Configure returns err (the deferred Unlock has returned): to the client, or to
\* line 85 of mustRegisterScraperWithDefaults, which with an error is about
\* to panic (line 86) and with nil goes on to registerScraper (line 89).
ConfigureReturn(t, err) ==
    IF frame[t].caller = "top"
    THEN /\ Return(t, [op |-> "Configure", s |-> frame[t].s, args |-> frame[t].args,
                       pre |-> frame[t].pre, post |-> config[frame[t].s],
                       k |-> frame[t].k, err |-> err])
         /\ UNCHANGED << fatal, regStarted >>
    ELSE IF err # NoError
    THEN /\ pc' = [pc EXCEPT ![t] = "must_panic"]
         /\ frame' = [frame EXCEPT ![t] =
                         [op |-> "mustRegisterScraperWithDefaults", s |-> frame[t].s,
                          enabled |-> frame[t].enabled, caller |-> "must", err |-> err]]
         /\ UNCHANGED << ret, fatal, regStarted >>
    ELSE /\ EnterRegister(t, frame[t].s, frame[t].enabled, "must")
         /\ UNCHANGED << fatal, ret >>

\* Line 86: panic(fmt.Sprintf("bug: %v", err)) with the error Configure
\* returned, the deferred Unlock of the scraper's lock done before that return.
MustPanic(t) ==
    /\ Alive
    /\ pc[t] = "must_panic"
    /\ Panic(t, frame[t].err)
    /\ UNCHANGED << registryVars, scraperVars, ch, ctx >>

\* Lines 146-170: one turn of the loop, or the return statement, at the first
\* argument that fails or after the last one; the return value is kept for
\* the caller while the deferred s.Unlock() of line 145 runs.
ConfigureLoop(t) ==
    /\ Alive
    /\ pc[t] = "cfg_loop"
    /\ LET f == frame[t]
           s == f.s
           done == f.k > Len(f.args)
           r == IF done THEN [config |-> config[s], err |-> NoError]
                ELSE configureArg(config[s], f.args[f.k])
       IN  IF done \/ r.err # NoError
           THEN /\ pc' = [pc EXCEPT ![t] = "Unlock.count"]
                /\ frame' = [frame EXCEPT ![t].err = r.err]
                /\ lastConfigured' = IF done /\ f.caller = "must"
                                     THEN [lastConfigured EXCEPT ![s] = "bootstrap"]
                                     ELSE lastConfigured
                /\ UNCHANGED config
           ELSE /\ config' = [config EXCEPT ![s] = r.config]
                /\ frame' = [frame EXCEPT ![t].k = f.k + 1]
                /\ lastConfigured' = IF f.caller = "top" THEN [lastConfigured EXCEPT ![s] = "client"]
                                     ELSE lastConfigured
                /\ UNCHANGED pc
    /\ UNCHANGED << registryVars, enabledFlag, RWMutex, readLocks, ret, fatal, ch, ctx >>

\* s.Args() is called; it starts with s.RLock() (line 124).
ArgsRLock(t, s) ==
    /\ Alive
    /\ pc[t] = "idle"
    /\ pc' = [pc EXCEPT ![t] = "RLock.count"]
    /\ frame' = [frame EXCEPT ![t] = [op |-> "Args", s |-> s, read |-> 0, args |-> Args(ZeroConfig)]]
    /\ ret' = [ret EXCEPT ![t] = NoRet]
    /\ UNCHANGED << registryVars, scraperVars, fatal, ch, ctx >>

\* Lines 126-138: the slice is built from s.database, s.table and s.utc, read
\* in that order, one field a step; after the last the return statement, and
\* the deferred s.RUnlock() of line 125 runs.
ArgsRead(t) ==
    /\ Alive
    /\ pc[t] = "args_read"
    /\ LET f == frame[t]
           cur == Args(config[f.s])
       IN  /\ frame' = [frame EXCEPT
                           ![t].read = @ + 1,
                           ![t].args = [k \in 1..3 |-> IF k = f.read + 1 THEN cur[k] ELSE f.args[k]]]
           /\ pc' = [pc EXCEPT ![t] = IF f.read < 2 THEN "args_read" ELSE "RUnlock.count"]
    /\ UNCHANGED << registryVars, scraperVars, ret, fatal, ch, ctx >>

\* ------------------------------------------------------------ the RWMutex's methods, step by step

\* The method of the RWMutex that goroutine t was in returns (result: what
\* TryLock and TryRLock return), and t goes on where the method was called:
\* Configure after s.Lock() (line 144) with its loop, and after the deferred
\* s.Unlock() (line 145) with the return of what the loop left; Args and
\* Scrape after s.RLock() (lines 124, 183) with their reads, and after the
\* deferred s.RUnlock() (lines 125, 184) with their return; the client that
\* called the method on the scraper has its call returned.
rwReturn(t, method, result) ==
    LET f == frame[t]
    IN  IF f.op = "Configure"
        THEN IF method = "Lock"
             THEN /\ pc' = [pc EXCEPT ![t] = "cfg_loop"]
                  /\ frame' = [frame EXCEPT ![t].pre = config[f.s], ![t].r = 0]
                  /\ UNCHANGED << ret, fatal, regStarted >>
             ELSE ConfigureReturn(t, f.err)
        ELSE IF f.op = "Args"
        THEN IF method = "RLock"
             THEN /\ pc' = [pc EXCEPT ![t] = "args_read"]
                  /\ UNCHANGED << frame, ret, fatal, regStarted >>
             ELSE /\ Return(t, [op |-> "Args", s |-> f.s, args |-> f.args])
                  /\ UNCHANGED << fatal, regStarted >>
        ELSE IF f.op = "Scrape"
        THEN IF method = "RLock"
             THEN /\ pc' = [pc EXCEPT ![t] = "sc_build"]
                  /\ UNCHANGED << frame, ret, fatal, regStarted >>
             ELSE /\ Return(t, [op |-> "Scrape", s |-> f.s, query |-> f.query,
                                queried |-> f.queried, rows |-> f.rows, err |-> f.err,
                                emitted |-> f.emitted])
                  /\ UNCHANGED << fatal, regStarted >>
        ELSE IF f.op \in {"TryLock", "TryRLock"}
        THEN /\ Return(t, [op |-> f.op, s |-> f.s, result |-> result])
             /\ UNCHANGED << fatal, regStarted >>
        ELSE /\ Return(t, [op |-> f.op, s |-> f.s])
             /\ UNCHANGED << fatal, regStarted >>

\* An rw.Lock() that announces the writer and returns without waiting for
\* the readers inside to leave.
MutRwLockNoWait(t) ==
    /\ Alive
    /\ pc[t] \in {"Lock.w", "Lock.count"}
    /\ LET s == frame[t].s
       IN  IF pc[t] = "Lock.w"
           THEN /\ RWMutex[s].w = "free"
                /\ RWMutex' = [RWMutex EXCEPT ![s].w = t]
                /\ pc' = [pc EXCEPT ![t] = "Lock.count"]
                /\ UNCHANGED << frame, ret, fatal, regStarted >>
           ELSE /\ RWMutex' = [RWMutex EXCEPT ![s].readerCount = @ - rwmutexMaxReaders]
                /\ rwReturn(t, "Lock", FALSE)
    /\ UNCHANGED << scraperRegistry, registryMu, regNil, regDup, lastBinder, lastSet,
                    config, enabledFlag, readLocks, lastConfigured, ch, ctx >>

\* rw.Lock(), one step of goroutine t.  "Lock.w": rw.w.Lock(), which waits
\* until the writers' mutex is free.  "Lock.count": r :=
\* rw.readerCount.Add(-rwmutexMaxReaders) + rwmutexMaxReaders, which announces
\* the writer to the readers.  "Lock.wait", when r != 0:
\* rw.readerWait.Add(r).  "Lock.sleep", when that was not 0: the sleep on
\* rw.writerSem, which ends by taking a wake-up.
rwLock(t) ==
    /\ Alive
    /\ pc[t] \in {"Lock.w", "Lock.count", "Lock.wait", "Lock.sleep"}
    /\ LET s == frame[t].s
           m == RWMutex[s]
       IN  IF pc[t] = "Lock.w"
           THEN /\ m.w = "free"
                /\ RWMutex' = [RWMutex EXCEPT ![s].w = t]
                /\ pc' = [pc EXCEPT ![t] = "Lock.count"]
                /\ UNCHANGED << frame, ret, fatal, regStarted >>
           ELSE IF pc[t] = "Lock.count"
           THEN /\ RWMutex' = [RWMutex EXCEPT ![s].readerCount = @ - rwmutexMaxReaders]
                /\ IF m.readerCount # 0
                   THEN /\ pc' = [pc EXCEPT ![t] = "Lock.wait"]
                        /\ frame' = [frame EXCEPT ![t].r = m.readerCount]
                        /\ UNCHANGED << ret, fatal, regStarted >>
                   ELSE rwReturn(t, "Lock", FALSE)
           ELSE IF pc[t] = "Lock.wait"
           THEN /\ RWMutex' = [RWMutex EXCEPT ![s].readerWait = @ + frame[t].r]
                /\ IF m.readerWait + frame[t].r # 0
                   THEN /\ pc' = [pc EXCEPT ![t] = "Lock.sleep"]
                        /\ UNCHANGED << frame, ret, fatal, regStarted >>
                   ELSE rwReturn(t, "Lock", FALSE)
           ELSE /\ m.writerSem > 0
                /\ RWMutex' = [RWMutex EXCEPT ![s].writerSem = @ - 1]
                /\ rwReturn(t, "Lock", FALSE)
    /\ UNCHANGED << scraperRegistry, registryMu, regNil, regDup, lastBinder, lastSet,
                    config, enabledFlag, readLocks, lastConfigured, ch, ctx >>

\* rw.Unlock(), one step of goroutine t.  "Unlock.count": r :=
\* rw.readerCount.Add(rwmutexMaxReaders), which withdraws the announcement
\* and admits the readers; r >= rwmutexMaxReaders is fatal.  "Unlock.wake",
\* r times: a wake-up posted to rw.readerSem.  "Unlock.w": rw.w.Unlock().
rwUnlock(t) ==
    /\ Alive
    /\ pc[t] \in {"Unlock.count", "Unlock.wake", "Unlock.w"}
    /\ LET s == frame[t].s
           m == RWMutex[s]
           r == m.readerCount + rwmutexMaxReaders
       IN  IF pc[t] = "Unlock.count"
           THEN /\ RWMutex' = [RWMutex EXCEPT ![s].readerCount = r]
                /\ IF r >= rwmutexMaxReaders
                   THEN /\ SyncFatal("sync: Unlock of unlocked RWMutex")
                        /\ UNCHANGED regStarted
                   ELSE /\ pc' = [pc EXCEPT ![t] = IF r > 0 THEN "Unlock.wake" ELSE "Unlock.w"]
                        /\ frame' = [frame EXCEPT ![t].r = r, ![t].i = 0]
                        /\ UNCHANGED << ret, fatal, regStarted >>
           ELSE IF pc[t] = "Unlock.wake"
           THEN /\ RWMutex' = [RWMutex EXCEPT ![s].readerSem = @ + 1]
                /\ pc' = [pc EXCEPT ![t] = IF frame[t].i + 1 < frame[t].r
                                           THEN "Unlock.wake" ELSE "Unlock.w"]
                /\ frame' = [frame EXCEPT ![t].i = @ + 1]
                /\ UNCHANGED << ret, fatal, regStarted >>
           ELSE IF m.w = "free"
           THEN /\ SyncFatal("sync: unlock of unlocked mutex")
                /\ UNCHANGED << RWMutex, regStarted >>
           ELSE /\ RWMutex' = [RWMutex EXCEPT ![s].w = "free"]
                /\ rwReturn(t, "Unlock", FALSE)
    /\ UNCHANGED << scraperRegistry, registryMu, regNil, regDup, lastBinder, lastSet,
                    config, enabledFlag, readLocks, lastConfigured, ch, ctx >>

\* rw.RLock(), one step of goroutine t.  "RLock.count":
\* rw.readerCount.Add(1), which counts the reader.  "RLock.sleep", when the
\* count came out negative (a writer is announced): the sleep on
\* rw.readerSem, which ends by taking a wake-up.
rwRLock(t) ==
    /\ Alive
    /\ pc[t] \in {"RLock.count", "RLock.sleep"}
    /\ LET s == frame[t].s
           m == RWMutex[s]
       IN  IF pc[t] = "RLock.count"
           THEN /\ RWMutex' = [RWMutex EXCEPT ![s].readerCount = @ + 1]
                /\ readLocks' = [readLocks EXCEPT ![t][s] = @ + 1]
                /\ IF m.readerCount + 1 < 0
                   THEN /\ pc' = [pc EXCEPT ![t] = "RLock.sleep"]
                        /\ UNCHANGED << frame, ret, fatal, regStarted >>
                   ELSE rwReturn(t, "RLock", FALSE)
           ELSE /\ m.readerSem > 0
                /\ RWMutex' = [RWMutex EXCEPT ![s].readerSem = @ - 1]
                /\ rwReturn(t, "RLock", FALSE)
                /\ UNCHANGED readLocks
    /\ UNCHANGED << scraperRegistry, registryMu, regNil, regDup, lastBinder, lastSet,
                    config, enabledFlag, lastConfigured, ch, ctx >>

\* rw.RUnlock(), one step of goroutine t.  "RUnlock.count": r :=
\* rw.readerCount.Add(-1); with r < 0, rUnlockSlow(r), where r+1 == 0 and
\* r+1 == -rwmutexMaxReaders are fatal.  "RUnlock.slow":
\* rw.readerWait.Add(-1).  "RUnlock.wake", when that was 0: a wake-up posted
\* to rw.writerSem.
rwRUnlock(t) ==
    /\ Alive
    /\ pc[t] \in {"RUnlock.count", "RUnlock.slow", "RUnlock.wake"}
    /\ LET s == frame[t].s
           m == RWMutex[s]
           r == m.readerCount - 1
       IN  IF pc[t] = "RUnlock.count"
           THEN /\ RWMutex' = [RWMutex EXCEPT ![s].readerCount = r]
                /\ \E u \in Threads :
                      /\ readLocks[u][s] > 0 \/ \A v \in Threads : readLocks[v][s] = 0
                      /\ u = t \/ readLocks[t][s] = 0
                      /\ readLocks' = [readLocks EXCEPT ![u][s] = IF @ > 0 THEN @ - 1 ELSE @]
                /\ IF r >= 0
                   THEN rwReturn(t, "RUnlock", FALSE)
                   ELSE IF r + 1 = 0 \/ r + 1 = -rwmutexMaxReaders
                   THEN /\ SyncFatal("sync: RUnlock of unlocked RWMutex")
                        /\ UNCHANGED regStarted
                   ELSE /\ pc' = [pc EXCEPT ![t] = "RUnlock.slow"]
                        /\ UNCHANGED << frame, ret, fatal, regStarted >>
           ELSE IF pc[t] = "RUnlock.slow"
           THEN /\ RWMutex' = [RWMutex EXCEPT ![s].readerWait = @ - 1]
                /\ UNCHANGED readLocks
                /\ IF m.readerWait - 1 = 0
                   THEN /\ pc' = [pc EXCEPT ![t] = "RUnlock.wake"]
                        /\ UNCHANGED << frame, ret, fatal, regStarted >>
                   ELSE rwReturn(t, "RUnlock", FALSE)
           ELSE /\ RWMutex' = [RWMutex EXCEPT ![s].writerSem = @ + 1]
                /\ UNCHANGED readLocks
                /\ rwReturn(t, "RUnlock", FALSE)
    /\ UNCHANGED << scraperRegistry, registryMu, regNil, regDup, lastBinder, lastSet,
                    config, enabledFlag, lastConfigured, ch, ctx >>

\* rw.TryLock(), one step of goroutine t.  "TryLock.w": rw.w.TryLock(), and
\* false is returned when the writers' mutex is taken.  "TryLock.cas":
\* rw.readerCount.CompareAndSwap(0, -rwmutexMaxReaders), and true is returned
\* when it swapped.  "TryLock.unlock", when it did not: rw.w.Unlock(), and
\* false is returned.
rwTryLock(t) ==
    /\ Alive
    /\ pc[t] \in {"TryLock.w", "TryLock.cas", "TryLock.unlock"}
    /\ LET s == frame[t].s
           m == RWMutex[s]
       IN  IF pc[t] = "TryLock.w"
           THEN IF m.w = "free"
                THEN /\ RWMutex' = [RWMutex EXCEPT ![s].w = t]
                     /\ pc' = [pc EXCEPT ![t] = "TryLock.cas"]
                     /\ UNCHANGED << frame, ret, fatal, regStarted >>
                ELSE /\ rwReturn(t, "TryLock", FALSE)
                     /\ UNCHANGED RWMutex
           ELSE IF pc[t] = "TryLock.cas"
           THEN IF m.readerCount = 0
                THEN /\ RWMutex' = [RWMutex EXCEPT ![s].readerCount = -rwmutexMaxReaders]
                     /\ rwReturn(t, "TryLock", TRUE)
                ELSE /\ pc' = [pc EXCEPT ![t] = "TryLock.unlock"]
                     /\ UNCHANGED << RWMutex, frame, ret, fatal, regStarted >>
           ELSE /\ RWMutex' = [RWMutex EXCEPT ![s].w = "free"]
                /\ rwReturn(t, "TryLock", FALSE)
    /\ UNCHANGED << scraperRegistry, registryMu, regNil, regDup, lastBinder, lastSet,
                    config, enabledFlag, readLocks, lastConfigured, ch, ctx >>

\* rw.TryRLock(), one step of goroutine t.  "TryRLock.load": c :=
\* rw.readerCount.Load(), and false is returned when c < 0.  "TryRLock.cas":
\* rw.readerCount.CompareAndSwap(c, c+1), and true is returned when it
\* swapped; when it did not, the loop starts again.
rwTryRLock(t) ==
    /\ Alive
    /\ pc[t] \in {"TryRLock.load", "TryRLock.cas"}
    /\ LET s == frame[t].s
           m == RWMutex[s]
       IN  IF pc[t] = "TryRLock.load"
           THEN /\ UNCHANGED << RWMutex, readLocks >>
                /\ IF m.readerCount < 0
                   THEN rwReturn(t, "TryRLock", FALSE)
                   ELSE /\ pc' = [pc EXCEPT ![t] = "TryRLock.cas"]
                        /\ frame' = [frame EXCEPT ![t].c = m.readerCount]
                        /\ UNCHANGED << ret, fatal, regStarted >>
           ELSE IF m.readerCount = frame[t].c
           THEN /\ RWMutex' = [RWMutex EXCEPT ![s].readerCount = @ + 1]
                /\ readLocks' = [readLocks EXCEPT ![t][s] = @ + 1]
                /\ rwReturn(t, "TryRLock", TRUE)
           ELSE /\ pc' = [pc EXCEPT ![t] = "TryRLock.load"]
                /\ UNCHANGED << RWMutex, readLocks, frame, ret, fatal, regStarted >>
    /\ UNCHANGED << scraperRegistry, registryMu, regNil, regDup, lastBinder, lastSet,
                    config, enabledFlag, lastConfigured, ch, ctx >>

\* ------------------------------------------------------------ the RWMutex's methods, called on a scraper

\* ScrapeHeartbeat embeds sync.RWMutex (line 89), so Lock, Unlock, RLock,
\* RUnlock, TryLock and TryRLock are methods of every *ScrapeHeartbeat, open
\* to any goroutine that has one (RLocker() hands out the same RLock and
\* RUnlock as a Locker).  Each of these is the call; the method's steps are
\* those above.  No function of the repository makes these calls: they are
\* made only by the clients of the specification SpecExposed.

\* s.Lock().
Lock(t, s) ==
    /\ Alive
    /\ pc[t] = "idle"
    /\ pc' = [pc EXCEPT ![t] = "Lock.w"]
    /\ frame' = [frame EXCEPT ![t] = [op |-> "Lock", s |-> s, r |-> 0]]
    /\ ret' = [ret EXCEPT ![t] = NoRet]
    /\ UNCHANGED << registryVars, scraperVars, fatal, ch, ctx >>

\* s.Unlock(), by whichever goroutine.
Unlock(t, s) ==
    /\ Alive
    /\ pc[t] = "idle"
    /\ pc' = [pc EXCEPT ![t] = "Unlock.count"]
    /\ frame' = [frame EXCEPT ![t] = [op |-> "Unlock", s |-> s, r |-> 0, i |-> 0]]
    /\ ret' = [ret EXCEPT ![t] = NoRet]
    /\ UNCHANGED << registryVars, scraperVars, fatal, ch, ctx >>

\* s.RLock().
RLock(t, s) ==
    /\ Alive
    /\ pc[t] = "idle"
    /\ RWMutex[s].readerCount < MaxReaders
    /\ pc' = [pc EXCEPT ![t] = "RLock.count"]
    /\ frame' = [frame EXCEPT ![t] = [op |-> "RLock", s |-> s]]
    /\ ret' = [ret EXCEPT ![t] = NoRet]
    /\ UNCHANGED << registryVars, scraperVars, fatal, ch, ctx >>

\* s.RUnlock(), by whichever goroutine.
RUnlock(t, s) ==
    /\ Alive
    /\ pc[t] = "idle"
    /\ pc' = [pc EXCEPT ![t] = "RUnlock.count"]
    /\ frame' = [frame EXCEPT ![t] = [op |-> "RUnlock", s |-> s]]
    /\ ret' = [ret EXCEPT ![t] = NoRet]
    /\ UNCHANGED << registryVars, scraperVars, fatal, ch, ctx >>

\* s.TryLock().
TryLock(t, s) ==
    /\ Alive
    /\ pc[t] = "idle"
    /\ pc' = [pc EXCEPT ![t] = "TryLock.w"]
    /\ frame' = [frame EXCEPT ![t] = [op |-> "TryLock", s |-> s]]
    /\ ret' = [ret EXCEPT ![t] = NoRet]
    /\ UNCHANGED << registryVars, scraperVars, fatal, ch, ctx >>

\* s.TryRLock().
TryRLock(t, s) ==
    /\ Alive
    /\ pc[t] = "idle"
    /\ RWMutex[s].readerCount < MaxReaders
    /\ pc' = [pc EXCEPT ![t] = "TryRLock.load"]
    /\ frame' = [frame EXCEPT ![t] = [op |-> "TryRLock", s |-> s, c |-> 0]]
    /\ ret' = [ret EXCEPT ![t] = NoRet]
    /\ UNCHANGED << registryVars, scraperVars, fatal, ch, ctx >>

\* ------------------------------------------------------------ Configure's specification

\* The arguments a client passes: the declared names and an undeclared one,
\* each with a value of every variant, and a second database name.
ClientArgs ==
    LET ClientArgNames == {heartbeatDatabase, heartbeatTable, heartbeatUtc, "bogus"}
        ClientArgValues == {StringValue("mydb"), BoolValue(TRUE), NumValue(7)}
    IN  {[name |-> n, value |-> v] : n \in ClientArgNames, v \in ClientArgValues}
            \cup {[name |-> heartbeatDatabase, value |-> StringValue("other")]}

RECURSIVE SeqsUpTo(_, _)
SeqsUpTo(S, n) ==
    IF n = 0 THEN {<< >>}
    ELSE LET shorter == SeqsUpTo(S, n - 1)
         IN  shorter \cup {Append(q, x) : q \in {r \in shorter : Len(r) = n - 1}, x \in S}

ClientArgLists == SeqsUpTo(ClientArgs, MaxArgs)

\* One client configures one scraper, and reads Args() (which changes nothing)
\* after each Configure.
NextConfigure ==
    \/ /\ pc["t1"] = "idle"
       /\ ret["t1"].op # "Configure"
       /\ \E a \in ClientArgLists : ConfigureLock("t1", "hbA", a)
    \/ rwLock("t1")
    \/ ConfigureLoop("t1")
    \/ rwUnlock("t1")
    \/ ArgsRLock("t1", "hbA")
    \/ rwRLock("t1")
    \/ ArgsRead("t1")
    \/ rwRUnlock("t1")

SpecConfigure == Init /\ [][NextConfigure]_vars

\* ------------------------------------------------------------ claims about Configure

\* What the argument definitions say of an argument: its name is declared, and
\* its value has the variant of that definition's default.
Declared(a) == \E k \in 1..Len(heartbeatArgDefs) : heartbeatArgDefs[k].name = a.name
Accepted(a) ==
    \E k \in 1..Len(heartbeatArgDefs) :
        /\ heartbeatArgDefs[k].name = a.name
        /\ heartbeatArgDefs[k].defaultValue.tag = a.value.tag

\* The first rejected argument of a list (Len + 1: none is).
FirstRejected(args) ==
    IF \A k \in 1..Len(args) : Accepted(args[k]) THEN Len(args) + 1
    ELSE CHOOSE k \in 1..Len(args) :
            /\ ~Accepted(args[k])
            /\ \A j \in 1..(k - 1) : Accepted(args[j])

\* Accepted arguments applied in order: each sets the field of its name.
RECURSIVE Applied(_, _)
Applied(cfg, args) ==
    IF args = << >> THEN cfg
    ELSE Applied([cfg EXCEPT ![Head(args).name] = Head(args).value.v], Tail(args))

\* C6: a Configure call returns an error exactly when one of its arguments is
\* rejected; the configuration it leaves is the one before the call with the
\* arguments before the first rejected one applied in order (all of them when
\* none is rejected), and nothing of the rejected one or of those after it.
C6_ConfigureStopsAtFirstFailure ==
    \A t \in Threads :
        ret[t].op = "Configure" =>
            LET k == FirstRejected(ret[t].args)
            IN  /\ ret[t].k = k
                /\ (ret[t].err = NoError) <=> (k = Len(ret[t].args) + 1)
                /\ ret[t].post = Applied(ret[t].pre, SubSeq(ret[t].args, 1, k - 1))

C6_Witness ==
    \E t \in Threads :
        /\ ret[t].op = "Configure"
        /\ Len(ret[t].args) = 3
        /\ ret[t].k = 2
        /\ ret[t].err # NoError
        /\ ret[t].pre = [database |-> "mydb", table |-> "", utc |-> FALSE]
        /\ ret[t].post = [database |-> "other", table |-> "", utc |-> FALSE]
        /\ ret[t].args[1].name = heartbeatDatabase
        /\ ret[t].args[3] = [name |-> heartbeatTable, value |-> StringValue("mydb")]
        /\ config[ret[t].s] = ret[t].post

\* C7: one turn of Configure's loop accepts its argument exactly when the
\* argument is declared with a default of the same variant, and then sets
\* that field; an undeclared name returns the unknown-argument error and a
\* declared name with another variant the wrong-type error, both naming the
\* scraper and the argument, and the configuration stays as it was; the
\* error of the return statement is the one the caller gets, the deferred
\* Unlock changing no configuration.
C7_AcceptsDeclaredNameAndVariant ==
    [][\A t \in Threads :
          /\ (/\ pc[t] = "cfg_loop"
              /\ frame[t].k <= Len(frame[t].args)
              /\ << pc[t], frame[t] >> # << pc'[t], frame'[t] >>)
             => LET a == frame[t].args[frame[t].k]
                    s == frame[t].s
                IN  IF Accepted(a)
                    THEN /\ pc'[t] = "cfg_loop"
                         /\ frame'[t].k = frame[t].k + 1
                         /\ config'[s] = [config[s] EXCEPT ![a.name] = a.value.v]
                    ELSE /\ config' = config
                         /\ pc'[t] = "Unlock.count"
                         /\ frame'[t].err.kind = IF Declared(a) THEN "wrong-type" ELSE "unknown-argument"
                         /\ frame'[t].err.scraper = "heartbeat"
                         /\ frame'[t].err.arg = a.name
          /\ (frame[t].op = "Configure" /\ pc[t] # "cfg_loop" /\ pc'[t] = "idle")
             => /\ ret'[t].op = "Configure"
                /\ ret'[t].err = frame[t].err
                /\ config' = config]_vars

C7_Witness ==
    \E t \in Threads :
        /\ ret[t].op = "Configure"
        /\ ret[t].args = << [name |-> heartbeatDatabase, value |-> StringValue("mydb")],
                            [name |-> heartbeatUtc, value |-> StringValue("mydb")] >>
        /\ ret[t].err = [kind |-> "wrong-type", scraper |-> "heartbeat", arg |-> heartbeatUtc]
        /\ ret[t].post.utc = FALSE
        /\ ret[t].post.database = "mydb"

\* ------------------------------------------------------------ mustRegisterScraperWithDefaults

\* A mustRegisterScraperWithDefaults that leaves out the defaults.
MutMustRegisterCall(t, s, enabled) ==
    /\ Alive
    /\ pc[t] = "idle"
    /\ RegCallsStarted + RegCallsAhead < MaxRegCalls
    /\ EnterRegister(t, s, enabled, "must")
    /\ ret' = [ret EXCEPT ![t] = NoRet]
    /\ UNCHANGED << scraperRegistry, registryMu, regNil, regDup, lastBinder, lastSet, scraperVars, fatal, ch, ctx >>

\* Lines 84-89: a Configurable scraper is first configured with its declared
\* defaults (line 85, which starts with s.Lock()); any other goes to
\* registerScraper at once.
MustRegisterCall(t, s, enabled) ==
    /\ Alive
    /\ pc[t] = "idle"
    /\ RegCallsStarted + RegCallsAhead < MaxRegCalls
    /\ IF IsConfigurable(s)
       THEN /\ EnterConfigure(t, s, defaultArgs(ArgDefinitions(s)), "must", enabled)
            /\ UNCHANGED regStarted
       ELSE /\ EnterRegister(t, s, enabled, "must")
            /\ ret' = [ret EXCEPT ![t] = NoRet]
    /\ UNCHANGED << scraperVars, scraperRegistry, registryMu, regNil, regDup, lastBinder, lastSet, fatal, ch, ctx >>

\* ------------------------------------------------------------ the bootstrap's specification

\* The argument lists clients pass to Configure while scrapers are registered.
BootstrapArgLists ==
    { << [name |-> heartbeatDatabase, value |-> StringValue("mydb")] >>,
      << [name |-> heartbeatUtc, value |-> BoolValue(TRUE)],
         [name |-> heartbeatTable, value |-> NumValue(7)] >> }

\* Both goroutines bootstrap scrapers; t1 also registers heartbeat scrapers
\* without defaults, and t2 is the client that reads their arguments and
\* configures one of them (hbA and hbB are alike, and a Configure touches
\* nothing of another scraper).
NextBootstrap ==
    \/ \E t \in Threads, s \in Scrapers, e \in BOOLEAN : MustRegisterCall(t, s, e)
    \/ \E s \in HeartbeatScrapers, e \in BOOLEAN : RegisterCall("t1", s, e)
    \/ \E t \in Threads : RegisterCheck(t)
    \/ \E t \in Threads : RegisterWrite(t)
    \/ RuntimeFatal
    \/ \E a \in BootstrapArgLists : ConfigureLock("t2", "hbA", a)
    \/ \E t \in Threads : rwLock(t)
    \/ \E t \in Threads : ConfigureLoop(t)
    \/ \E t \in Threads : rwUnlock(t)
    \/ \E s \in HeartbeatScrapers : ArgsRLock("t2", s)
    \/ rwRLock("t2")
    \/ ArgsRead("t2")
    \/ rwRUnlock("t2")
    \/ LookupCall("t2", "heartbeat")
    \/ LookupRead("t2")
    \/ IsEnabledLock("t2", "heartbeat")
    \/ IsEnabledBody("t2")

SpecBootstrap == Init /\ [][NextBootstrap]_vars

\* ------------------------------------------------------------ claims about the bootstrap

\* C8: the step that completes mustRegisterScraperWithDefaults(s, enabled) of
\* a heartbeat scraper makes s the scraper LookupScraper("heartbeat") returns
\* and IsScraperEnabled("heartbeat") equal to enabled, with s configured; and
\* a heartbeat scraper whose last configuration is the bootstrap's has
\* Args() equal to its three declared defaults, until a client's Configure
\* changes it.
C8_BootstrapAppliesDefaults ==
    /\ [](\A s \in HeartbeatScrapers :
            lastConfigured[s] = "bootstrap" =>
                Args(config[s]) = defaultArgs(heartbeatArgDefs))
    /\ [][\A t \in Threads :
            (/\ pc[t] = "reg_write"
             /\ pc'[t] = "idle"
             /\ frame[t].caller = "must"
             /\ frame[t].s \in HeartbeatScrapers)
            => /\ LookupScraper(scraperRegistry', "heartbeat") = [scraper |-> frame[t].s, found |-> TRUE]
               /\ IsScraperEnabled(scraperRegistry', "heartbeat") = frame[t].enabled
               /\ lastConfigured'[frame[t].s] # "never"
               /\ lastConfigured'[frame[t].s] = "bootstrap" =>
                     Args(config'[frame[t].s]) =
                         << [name |-> "database", value |-> StringValue("heartbeat")],
                            [name |-> "table", value |-> StringValue("heartbeat")],
                            [name |-> "utc", value |-> BoolValue(FALSE)] >>]_vars

C8_Witness ==
    \E t \in Threads, u \in Threads :
        /\ ret[t] = [op |-> "mustRegisterScraperWithDefaults", s |-> "hbA",
                     enabled |-> TRUE, err |-> NoError]
        /\ regStarted["hbB"] = 0
        /\ lastConfigured["hbA"] = "bootstrap"
        /\ LookupScraper(scraperRegistry, "heartbeat") = [scraper |-> "hbA", found |-> TRUE]
        /\ IsScraperEnabled(scraperRegistry, "heartbeat") = TRUE
        /\ ret[u] = [op |-> "Args", s |-> "hbA",
                     args |-> << [name |-> "database", value |-> StringValue("heartbeat")],
                                 [name |-> "table", value |-> StringValue("heartbeat")],
                                 [name |-> "utc", value |-> BoolValue(FALSE)] >>]

\* ------------------------------------------------------------ numbers of any size

\* Natural numbers of any size are little-endian sequences of limbs in base
\* 2^15, the most significant limb not 0; 0 is << >>.
LimbBase == 2^15

natTrim(a) ==
    LET nonzero == {i \in 1..Len(a) : a[i] # 0}
    IN  IF nonzero = {} THEN << >>
        ELSE SubSeq(a, 1, CHOOSE i \in nonzero : \A j \in nonzero : j <= i)

\* The limbs of the number whose limb i is r[i], each r[i] below 2 * LimbBase:
\* a carry enters limb i from the nearest limb below it that is LimbBase or
\* more, when all the limbs between are LimbBase - 1.
natCarry(r) ==
    LET carry(i) == IF \E j \in 1..(i - 1) :
                         r[j] >= LimbBase /\ \A k \in (j + 1)..(i - 1) : r[k] = LimbBase - 1
                    THEN 1 ELSE 0
    IN  natTrim([i \in 1..(Len(r) + 1) |->
                    ((IF i <= Len(r) THEN r[i] ELSE 0) + carry(i)) % LimbBase] \o << >>)

\* a + b.
natAdd(a, b) ==
    natCarry([i \in 1..(IF Len(a) > Len(b) THEN Len(a) ELSE Len(b)) |->
                 (IF i <= Len(a) THEN a[i] ELSE 0) + (IF i <= Len(b) THEN b[i] ELSE 0)]
             \o << >>)

\* a * m + c, for 0 <= m < LimbBase and 0 <= c < LimbBase.
natMulAdd(a, m, c) ==
    IF a = << >> THEN (IF c = 0 THEN << >> ELSE << c >>)
    ELSE natCarry([i \in 1..(Len(a) + 1) |->
                      (IF i <= Len(a) THEN (a[i] * m) % LimbBase ELSE 0)
                      + (IF i = 1 THEN c ELSE (a[i - 1] * m) \div LimbBase)] \o << >>)

\* -1, 0 or 1 as a is less than, equal to or greater than b.
natCmp(a, b) ==
    IF Len(a) # Len(b) THEN (IF Len(a) < Len(b) THEN -1 ELSE 1)
    ELSE IF a = b THEN 0
    ELSE LET differ == {i \in 1..Len(a) : a[i] # b[i]}
             k == CHOOSE i \in differ : \A j \in differ : j <= i
         IN  IF a[k] < b[k] THEN -1 ELSE 1

\* a - b, for a >= b: a borrow enters limb i from the nearest limb below it
\* where a has less than b, when a and b agree on all the limbs between.
natSub(a, b) ==
    LET d(i) == a[i] - (IF i <= Len(b) THEN b[i] ELSE 0)
        borrow(i) == IF \E j \in 1..(i - 1) : d(j) < 0 /\ \A k \in (j + 1)..(i - 1) : d(k) = 0
                     THEN 1 ELSE 0
    IN  natTrim([i \in 1..Len(a) |-> (d(i) - borrow(i) + LimbBase) % LimbBase] \o << >>)

\* a * 2^k, a * LimbBase^k and a \div 2.
natShl(a, k) ==
    IF a = << >> THEN << >>
    ELSE [i \in 1..(k \div 15) |-> 0] \o natMulAdd(a, 2^(k % 15), 0)
natShr1(a) ==
    natTrim([i \in 1..Len(a) |->
                (a[i] \div 2) + (IF i < Len(a) THEN (a[i + 1] % 2) * (LimbBase \div 2) ELSE 0)]
            \o << >>)

\* The number of bits of a, and a \div 2^k.
natBitLen(a) ==
    LET limbBitLen(x) == CHOOSE n \in 0..15 : x < 2^n /\ (n = 0 \/ x >= 2^(n - 1))
    IN  IF a = << >> THEN 0 ELSE 15 * (Len(a) - 1) + limbBitLen(a[Len(a)])
natShr(a, k) ==
    LET drop == k \div 15
        by == 2^(k % 15)
    IN  natTrim([i \in 1..(Len(a) - drop) |->
                    (a[i + drop] \div by)
                    + (IF i + drop < Len(a) THEN (a[i + drop + 1] % by) * (LimbBase \div by) ELSE 0)]
                \o << >>)

\* a * b, by the halves of b.
RECURSIVE natMul(_, _)
natMul(a, b) ==
    IF a = << >> \/ b = << >> THEN << >>
    ELSE IF Len(b) = 1 THEN natMulAdd(a, b[1], 0)
    ELSE LET h == Len(b) \div 2
             shifted(high) == IF high = << >> THEN << >> ELSE [i \in 1..h |-> 0] \o high
         IN  natAdd(natMul(a, natTrim(SubSeq(b, 1, h))),
                    shifted(natMul(a, SubSeq(b, h + 1, Len(b)))))

\* base^n, for 1 <= base < LimbBase, by squaring.
RECURSIVE natPow(_, _)
natPow(base, n) ==
    IF n = 0 THEN << 1 >>
    ELSE LET square(half) == natMul(half, half)
         IN  IF n % 2 = 1 THEN natMulAdd(square(natPow(base, n \div 2)), base, 0)
             ELSE square(natPow(base, n \div 2))

\* The number written by the digit values ds in the given base, by halves.
RECURSIVE natFromDigits(_, _)
natFromDigits(ds, base) ==
    IF ds = << >> THEN << >>
    ELSE IF Len(ds) = 1 THEN (IF ds[1] = 0 THEN << >> ELSE << ds[1] >>)
    ELSE LET h == Len(ds) \div 2
         IN  natAdd(natMul(natFromDigits(SubSeq(ds, 1, h), base), natPow(base, Len(ds) - h)),
                    natFromDigits(SubSeq(ds, h + 1, Len(ds)), base))

\* a \div m and a % m for 1 <= m < LimbBase, from the most significant limb.
RECURSIVE natDivSmall(_, _, _)
natDivSmall(a, m, r) ==
    IF a = << >> THEN [q |-> << >>, r |-> r]
    ELSE LET x == r * LimbBase + a[Len(a)]
             with(rest) == [q |-> Append(rest.q, x \div m), r |-> rest.r]
         IN  with(natDivSmall(SubSeq(a, 1, Len(a) - 1), m, x % m))

\* Long division, one bit of the quotient a step: st.t is the divisor times
\* a power of 2, halved at each step, st.r what is left of the dividend and
\* st.q the bits of the quotient so far.  natDivBits takes n steps.
RECURSIVE natDivBits(_, _)
natDivBits(st, n) ==
    IF n = 0 THEN st
    ELSE IF n = 1
    THEN IF natCmp(st.r, st.t) >= 0
         THEN [r |-> natSub(st.r, st.t), t |-> natShr1(st.t), q |-> natMulAdd(st.q, 2, 1)]
         ELSE [r |-> st.r, t |-> natShr1(st.t), q |-> natMulAdd(st.q, 2, 0)]
    ELSE CHOOSE out \in {natDivBits(half, n - n \div 2) : half \in {natDivBits(st, n \div 2)}} :
             TRUE

\* ------------------------------------------------------------ Scrape: the code's computations

\* nowExpr(utc), lines 174-179.
nowExpr(utc) == IF utc THEN "UTC_TIMESTAMP(6)" ELSE "NOW(6)"

\* fmt.Sprintf(heartbeatQuery, nowExpr(s.utc), s.database, s.table), line 186:
\* the three strings substituted into the query text.
heartbeatQuery(cfg) ==
    [nowExpr |-> nowExpr(cfg.utc), database |-> cfg.database, table |-> cfg.table]

\* A column's bytes are a sequence of characters.
DigitChars == {"0", "1", "2", "3", "4", "5", "6", "7", "8", "9"}
DigitValue(c) ==
    CASE c = "0" -> 0 [] c = "1" -> 1 [] c = "2" -> 2 [] c = "3" -> 3 [] c = "4" -> 4
      [] c = "5" -> 5 [] c = "6" -> 6 [] c = "7" -> 7 [] c = "8" -> 8 [] c = "9" -> 9

\* lower(c) of strconv, on the letters: the lower-case letter of an upper-case one.
lower(c) ==
    LET UpperChars == << "A", "B", "C", "D", "E", "F", "G", "H", "I", "J", "K", "L", "M",
                         "N", "O", "P", "Q", "R", "S", "T", "U", "V", "W", "X", "Y", "Z" >>
        LowerChars == << "a", "b", "c", "d", "e", "f", "g", "h", "i", "j", "k", "l", "m",
                         "n", "o", "p", "q", "r", "s", "t", "u", "v", "w", "x", "y", "z" >>
    IN  IF \E k \in 1..26 : UpperChars[k] = c
        THEN LowerChars[CHOOSE k \in 1..26 : UpperChars[k] = c]
        ELSE c
isHexLetter(c) == lower(c) \in {"a", "b", "c", "d", "e", "f"}
hexLetterValue(c) ==
    CASE lower(c) = "a" -> 10 [] lower(c) = "b" -> 11 [] lower(c) = "c" -> 12
      [] lower(c) = "d" -> 13 [] lower(c) = "e" -> 14 [] lower(c) = "f" -> 15

\* float64 values: a finite one is (-1)^neg * mant * 2^exp with mant odd, or
\* mant 0 and exp 0 for the two zeros; the infinities; NaN, of kind "nan".
floatZero(neg) == [kind |-> "finite", neg |-> neg, mant |-> << >>, exp |-> 0]
floatInf(neg) == [kind |-> "inf", neg |-> neg, mant |-> << >>, exp |-> 0]

\* The float64 nearest to n / d (n > 0, d > 0), ties to the even mantissa:
\* 53 bits of mantissa, fewer below 2^-1022; an infinity and the range error
\* from 2^1024 on.
roundFloat64(neg, n, d) ==
    LET \* the number of 0 bits q ends with
        zerosOf(q) ==
            LET low == CHOOSE i \in 1..Len(q) : q[i] # 0 /\ \A j \in 1..(i - 1) : q[j] = 0
            IN  15 * (low - 1)
                + CHOOSE k \in 0..14 : q[low] % 2^k = 0 /\ q[low] % 2^(k + 1) # 0
        odd(q, sh, zeros) ==
            [kind |-> "finite", neg |-> neg, mant |-> natShr(q, zeros), exp |-> sh + zeros]
        \* the value q * 2^sh
        finish(q, sh) ==
            IF q = << >> THEN [range |-> FALSE, value |-> floatZero(neg)]
            ELSE IF natBitLen(q) + sh > 1024 THEN [range |-> TRUE, value |-> floatInf(neg)]
            ELSE [range |-> FALSE, value |-> odd(q, sh, zerosOf(q))]
        \* half is -1, 0 or 1 as what the division left is less than, equal to
        \* or more than half of the divisor
        round(qr, half, sh) ==
            finish(IF half > 0 \/ (half = 0 /\ qr.q # << >> /\ qr.q[1] % 2 = 1)
                   THEN natMulAdd(qr.q, 1, 1) ELSE qr.q, sh)
        quotient(qr, d1, sh) == round(qr, natCmp(natMulAdd(qr.r, 2, 0), d1), sh)
        divide(n1, d1, sh) ==
            quotient(natDivBits([r |-> n1, t |-> natShl(d1, 52), q |-> << >>], 53), d1, sh)
        \* n / d = q * 2^sh with q of 53 bits, or fewer below 2^-1022
        scale(sh) ==
            divide(IF sh < 0 THEN natShl(n, -sh) ELSE n, IF sh > 0 THEN natShl(d, sh) ELSE d, sh)
        \* 2^e <= n / d < 2^(e + 1)
        exponent(e) == scale((IF e < -1022 THEN -1022 ELSE e) - 52)
        estimate(e0) ==
            exponent(IF (IF e0 >= 0 THEN natCmp(n, natShl(d, e0)) >= 0
                         ELSE natCmp(natShl(n, -e0), d) >= 0)
                     THEN e0 ELSE e0 - 1)
    IN  estimate(natBitLen(n) - natBitLen(d))

\* commonPrefixLenIgnoreCase(s, prefix) of strconv.
commonPrefixLenIgnoreCase(s, prefix) ==
    LET n == IF Len(prefix) > Len(s) THEN Len(s) ELSE Len(prefix)
        differ == {i \in 1..n : lower(s[i]) # prefix[i]}
    IN  IF differ = {} THEN n ELSE (CHOOSE i \in differ : \A j \in differ : i <= j) - 1

\* special(s) of strconv: a prefix of s that is inf, infinity (signed or not)
\* or nan, whatever the case of the letters; n is its length.
special(s) ==
    LET none == [ok |-> FALSE, n |-> 0, value |-> floatZero(FALSE)]
        signed == s # << >> /\ s[1] \in {"+", "-"}
        infinity(n) ==
            IF n = 3 \/ n = 8
            THEN [ok |-> TRUE, n |-> (IF signed THEN 1 ELSE 0) + n,
                  value |-> floatInf(signed /\ s[1] = "-")]
            ELSE none
        prefix(inf) == infinity(IF 3 < inf /\ inf < 8 THEN 3 ELSE inf)
    IN  IF s = << >> THEN none
        ELSE IF signed \/ lower(s[1]) = "i"
        THEN prefix(commonPrefixLenIgnoreCase(IF signed THEN Tail(s) ELSE s,
                                              << "i", "n", "f", "i", "n", "i", "t", "y" >>))
        ELSE IF lower(s[1]) = "n"
        THEN IF commonPrefixLenIgnoreCase(s, << "n", "a", "n" >>) = 3
             THEN [ok |-> TRUE, n |-> 3,
                   value |-> [kind |-> "nan", neg |-> FALSE, mant |-> << >>, exp |-> 0]]
             ELSE none
        ELSE none

\* The loop over the mantissa in readFloat, one character a step: underscores,
\* one point, digits (leading zeros only move the point) and in a
\* hexadecimal mantissa the letters a to f; st.i is where it stands, and it
\* stays at the character it stops at.  readMantissa takes n steps.
RECURSIVE readMantissa(_, _, _, _)
readMantissa(s, hex, st, n) ==
    IF n = 0 THEN st
    ELSE IF n = 1
    THEN IF st.i > Len(s) THEN st
         ELSE IF s[st.i] = "_" THEN [st EXCEPT !.i = @ + 1, !.underscores = TRUE]
         ELSE IF s[st.i] = "."
         THEN IF st.sawdot THEN st
              ELSE [st EXCEPT !.i = @ + 1, !.sawdot = TRUE, !.dp = st.nd]
         ELSE IF s[st.i] \in DigitChars
         THEN IF s[st.i] = "0" /\ st.nd = 0
              THEN [st EXCEPT !.i = @ + 1, !.sawdigits = TRUE, !.dp = @ - 1]
              ELSE [st EXCEPT !.i = @ + 1, !.sawdigits = TRUE, !.nd = @ + 1,
                              !.digits = Append(@, DigitValue(s[st.i]))]
         ELSE IF hex /\ isHexLetter(s[st.i])
         THEN [st EXCEPT !.i = @ + 1, !.sawdigits = TRUE, !.nd = @ + 1,
                         !.digits = Append(@, hexLetterValue(s[st.i]))]
         ELSE st
    ELSE CHOOSE out \in {readMantissa(s, hex, half, n - n \div 2) :
                             half \in {readMantissa(s, hex, st, n \div 2)}} : TRUE

\* The loop over the exponent in readFloat: digits, underscores among them;
\* the exponent is no longer added to from 10000 on.
RECURSIVE readExponent(_, _, _)
readExponent(s, st, n) ==
    IF n = 0 THEN st
    ELSE IF n = 1
    THEN IF st.i > Len(s) THEN st
         ELSE IF s[st.i] = "_" THEN [st EXCEPT !.i = @ + 1, !.underscores = TRUE]
         ELSE IF s[st.i] \in DigitChars
         THEN [st EXCEPT !.i = @ + 1,
                         !.e = IF @ < 10000 THEN @ * 10 + DigitValue(s[st.i]) ELSE @]
         ELSE st
    ELSE CHOOSE out \in {readExponent(s, half, n - n \div 2) :
                             half \in {readExponent(s, st, n \div 2)}} : TRUE

\* underscoreOK(s) of strconv: every underscore stands between two digits, or
\* between a base prefix and a digit.  saw is what the last character was: a
\* digit or a base prefix "0", an underscore "_", the start "^", another
\* character "!"; "no" once an underscore is out of place.
RECURSIVE underscoreScan(_, _, _, _)
underscoreScan(s, hex, st, n) ==
    IF n = 0 THEN st
    ELSE IF n = 1
    THEN IF st.i > Len(s) \/ st.saw = "no" THEN st
         ELSE IF s[st.i] \in DigitChars \/ (hex /\ isHexLetter(s[st.i]))
         THEN [i |-> st.i + 1, saw |-> "0"]
         ELSE IF s[st.i] = "_"
         THEN [i |-> st.i + 1, saw |-> IF st.saw # "0" THEN "no" ELSE "_"]
         ELSE [i |-> st.i + 1, saw |-> IF st.saw = "_" THEN "no" ELSE "!"]
    ELSE CHOOSE out \in {underscoreScan(s, hex, half, n - n \div 2) :
                             half \in {underscoreScan(s, hex, st, n \div 2)}} : TRUE
underscoreOK(s) ==
    LET body == IF s # << >> /\ s[1] \in {"+", "-"} THEN Tail(s) ELSE s
        prefix == Len(body) >= 2 /\ body[1] = "0" /\ lower(body[2]) \in {"b", "o", "x"}
    IN  underscoreScan(body, prefix /\ lower(body[2]) = "x",
                       [i |-> IF prefix THEN 3 ELSE 1, saw |-> IF prefix THEN "0" ELSE "^"],
                       Len(body)).saw \notin {"_", "no"}

\* readFloat(s) of strconv: the sign, the significant digits of the mantissa
\* (all of them), the base, and exp with value = mantissa * 10^exp, or
\* mantissa * 2^exp for a hexadecimal one; i is where the number ends.
readFloat(s) ==
    LET signed == s # << >> /\ s[1] \in {"+", "-"}
        neg == signed /\ s[1] = "-"
        i0 == IF signed THEN 2 ELSE 1
        hex == i0 + 2 <= Len(s) /\ s[i0] = "0" /\ lower(s[i0 + 1]) = "x"
        fail == [ok |-> FALSE, neg |-> neg, hex |-> hex, digits |-> << >>, exp |-> 0, i |-> 0]
        \* m is the mantissa read, x the exponent read from e0 on
        number(m, hasExp, esigned, e0, x) ==
            LET dp == (IF m.sawdot THEN m.dp ELSE m.nd) * (IF hex THEN 4 ELSE 1)
                ndMant == m.nd * (IF hex THEN 4 ELSE 1)
                badExp == e0 > Len(s) \/ s[e0] \notin DigitChars
                end == IF hasExp THEN x.i ELSE m.i
                e == IF hasExp THEN (IF esigned /\ s[m.i + 1] = "-" THEN -x.e ELSE x.e) ELSE 0
            IN  IF s = << >> \/ ~m.sawdigits THEN fail
                ELSE IF hasExp /\ badExp THEN fail
                ELSE IF ~hasExp /\ hex THEN fail
                ELSE IF (m.underscores \/ (hasExp /\ x.underscores))
                        /\ ~underscoreOK(SubSeq(s, 1, end - 1))
                THEN fail
                ELSE [ok |-> TRUE, neg |-> neg, hex |-> hex, digits |-> m.digits,
                      exp |-> dp + e - ndMant, i |-> end]
        exponent(m, hasExp, esigned, e0) ==
            number(m, hasExp, esigned, e0,
                   readExponent(s, [i |-> e0, e |-> 0, underscores |-> FALSE], Len(s)))
        mantissa(m) ==
            exponent(m, m.i <= Len(s) /\ lower(s[m.i]) = (IF hex THEN "p" ELSE "e"),
                     m.i + 1 <= Len(s) /\ s[m.i + 1] \in {"+", "-"},
                     m.i + (IF m.i + 1 <= Len(s) /\ s[m.i + 1] \in {"+", "-"} THEN 2 ELSE 1))
    IN  mantissa(readMantissa(s, hex,
                              [sawdot |-> FALSE, sawdigits |-> FALSE, nd |-> 0, dp |-> 0,
                               digits |-> << >>, underscores |-> FALSE,
                               i |-> IF hex THEN i0 + 2 ELSE i0], Len(s)))

\* strconv.ParseFloat(string(raw), 64), lines 203 and 208: the float64 nearest
\* to the number raw writes; err with range for a number too large, err
\* without range for text that is not a number.  nd is the number of
\* significant digits and point the place of the point after the first of
\* them: a decimal with point > 310 is too large and one with point < -330
\* is 0, as is a hexadecimal one below 2^-1080, and one from 2^1025 on is too
\* large.
ParseFloat(raw) ==
    LET syntax == [err |-> TRUE, range |-> FALSE, value |-> floatZero(FALSE)]
        rounded(r) == [err |-> r.range, range |-> r.range, value |-> r.value]
        number(rf, mant, point, top) ==
            IF mant = << >> THEN [err |-> FALSE, range |-> FALSE, value |-> floatZero(rf.neg)]
            ELSE IF (rf.hex /\ top > 1025) \/ (~rf.hex /\ point > 310)
            THEN [err |-> TRUE, range |-> TRUE, value |-> floatInf(rf.neg)]
            ELSE IF (rf.hex /\ top < -1080) \/ (~rf.hex /\ point < -330)
            THEN [err |-> FALSE, range |-> FALSE, value |-> floatZero(rf.neg)]
            ELSE IF rf.hex
            THEN rounded(roundFloat64(rf.neg,
                                      IF rf.exp > 0 THEN natShl(mant, rf.exp) ELSE mant,
                                      IF rf.exp < 0 THEN natShl(<< 1 >>, -rf.exp) ELSE << 1 >>))
            ELSE rounded(roundFloat64(rf.neg,
                                      IF rf.exp > 0 THEN natMul(mant, natPow(10, rf.exp)) ELSE mant,
                                      IF rf.exp < 0 THEN natPow(10, -rf.exp) ELSE << 1 >>))
        mantissa(rf, mant) == number(rf, mant, rf.exp + Len(rf.digits), natBitLen(mant) + rf.exp)
        read(rf) ==
            IF ~rf.ok \/ rf.i # Len(raw) + 1 THEN syntax
            ELSE mantissa(rf, natFromDigits(rf.digits, IF rf.hex THEN 16 ELSE 10))
        named(sp) ==
            IF sp.ok
            THEN IF sp.n = Len(raw) THEN [err |-> FALSE, range |-> FALSE, value |-> sp.value]
                 ELSE syntax
            ELSE read(readFloat(raw))
    IN  named(special(raw))

\* Rows.Scan into serverId int, line 199: strconv.ParseInt(string(raw), 10,
\* 64), a sign and decimal digits within the range of int64, or an error.
ScanInt(raw) ==
    LET signed == raw # << >> /\ raw[1] \in {"+", "-"}
        neg == signed /\ raw[1] = "-"
        body == IF signed THEN Tail(raw) ELSE raw
        ranged(mag, limit) ==
            IF natCmp(mag, limit) > 0 \/ (~neg /\ natCmp(mag, limit) = 0)
            THEN [err |-> TRUE, value |-> [neg |-> FALSE, mag |-> << >>]]
            ELSE [err |-> FALSE, value |-> [neg |-> neg /\ mag # << >>, mag |-> mag]]
    IN  IF body = << >> \/ \E k \in 1..Len(body) : body[k] \notin DigitChars
        THEN [err |-> TRUE, value |-> [neg |-> FALSE, mag |-> << >>]]
        ELSE ranged(natFromDigits([k \in 1..Len(body) |-> DigitValue(body[k])] \o << >>, 10),
                    natShl(<< 1 >>, 63))

\* strconv.Itoa(serverId), line 213.
RECURSIVE natDigits(_)
natDigits(a) ==
    IF a = << >> THEN << >>
    ELSE LET DigitChar == << "0", "1", "2", "3", "4", "5", "6", "7", "8", "9" >>
             with(d) == Append(natDigits(natTrim(d.q)), DigitChar[d.r + 1])
         IN  with(natDivSmall(a, 10, 0))
Itoa(n) ==
    IF n.mag = << >> THEN << "0" >>
    ELSE (IF n.neg THEN << "-" >> ELSE << >>) \o natDigits(n.mag)

ScanError == [kind |-> "scan-error", scraper |-> "heartbeat", arg |-> ""]
ParseError == [kind |-> "parse-error", scraper |-> "heartbeat", arg |-> ""]
RangeError == [kind |-> "range-error", scraper |-> "heartbeat", arg |-> ""]
QueryError == [kind |-> "query-error", scraper |-> "heartbeat", arg |-> ""]

\* A scanRow that lets a now column that does not parse through.
MutScanRowIgnoreNowError(row) ==
    LET scanned(id, ts, now) ==
            IF id.err
            THEN [err |-> ScanError, ts |-> ts.value, now |-> now.value, serverId |-> << >>]
            ELSE IF ts.err
            THEN [err |-> IF ts.range THEN RangeError ELSE ParseError,
                  ts |-> ts.value, now |-> now.value, serverId |-> << >>]
            ELSE [err |-> NoError, ts |-> ts.value, now |-> now.value,
                  serverId |-> Itoa(id.value)]
    IN  scanned(ScanInt(row.serverId), ParseFloat(row.ts), ParseFloat(row.now))

\* Lines 199-213 on one row: Scan, the two ParseFloat and Itoa, stopping at
\* the first error.
scanRow(row) ==
    LET scanned(id, ts, now) ==
            IF id.err
            THEN [err |-> ScanError, ts |-> ts.value, now |-> now.value, serverId |-> << >>]
            ELSE IF ts.err
            THEN [err |-> IF ts.range THEN RangeError ELSE ParseError,
                  ts |-> ts.value, now |-> now.value, serverId |-> << >>]
            ELSE IF now.err
            THEN [err |-> IF now.range THEN RangeError ELSE ParseError,
                  ts |-> ts.value, now |-> now.value, serverId |-> << >>]
            ELSE [err |-> NoError, ts |-> ts.value, now |-> now.value,
                  serverId |-> Itoa(id.value)]
    IN  scanned(ScanInt(row.serverId), ParseFloat(row.ts), ParseFloat(row.now))

\* Lines 215-220 and 221-226: the two metrics of a scanned row.
MutNowMetric(r) ==
    [desc |-> "HeartbeatNowDesc", valueType |-> "GaugeValue", value |-> r.ts, labels |-> << r.serverId >>]
nowMetric(r) ==
    [desc |-> "HeartbeatNowDesc", valueType |-> "GaugeValue", value |-> r.now, labels |-> << r.serverId >>]
storedMetric(r) ==
    [desc |-> "HeartbeatStoredDesc", valueType |-> "GaugeValue", value |-> r.ts, labels |-> << r.serverId >>]

\* ------------------------------------------------------------ Scrape

NoRow == [err |-> NoError, ts |-> floatZero(FALSE), now |-> floatZero(FALSE), serverId |-> << >>]

\* s.Scrape(ctx, db, ch, logger) is called; it starts with s.RLock() (line
\* 183).
ScrapeRLock(t, s) ==
    /\ Alive
    /\ pc[t] = "idle"
    /\ pc' = [pc EXCEPT ![t] = "RLock.count"]
    /\ frame' = [frame EXCEPT ![t] =
                    [op |-> "Scrape", s |-> s, read |-> 0, query |-> heartbeatQuery(ZeroConfig),
                     rows |-> << >>, i |-> 1, cur |-> NoRow, emitted |-> << >>,
                     queried |-> FALSE, err |-> NoError]]
    /\ ret' = [ret EXCEPT ![t] = NoRet]
    /\ UNCHANGED << registryVars, scraperVars, fatal, ch, ctx >>

\* Line 186: the query is built from nowExpr(s.utc), s.database and s.table,
\* read in that order, one field a step.
ScrapeBuildQuery(t) ==
    /\ Alive
    /\ pc[t] = "sc_build"
    /\ LET f == frame[t]
           cur == heartbeatQuery(config[f.s])
       IN  /\ frame' = [frame EXCEPT
                           ![t].read = @ + 1,
                           ![t].query = IF f.read = 0 THEN [f.query EXCEPT !.nowExpr = cur.nowExpr]
                                        ELSE IF f.read = 1 THEN [f.query EXCEPT !.database = cur.database]
                                        ELSE [f.query EXCEPT !.table = cur.table]]
           /\ pc' = [pc EXCEPT ![t] = IF f.read = 2 THEN "sc_query" ELSE "sc_build"]
    /\ UNCHANGED << registryVars, scraperVars, ret, fatal, ch, ctx >>

\* A return statement of Scrape, with err (queried: the query had returned
\* rows): the value is kept for the caller while the deferred
\* heartbeatRows.Close() and s.RUnlock() (line 184) run.
ScrapeReturn(t, queried, err) ==
    /\ pc' = [pc EXCEPT ![t] = "RUnlock.count"]
    /\ frame' = [frame EXCEPT ![t].queried = queried, ![t].err = err]

\* Lines 187-190: db.QueryContext fails, the context still live.
ScrapeQueryFails(t) ==
    /\ Alive
    /\ pc[t] = "sc_query"
    /\ ctx = "live"
    /\ ScrapeReturn(t, FALSE, QueryError)
    /\ UNCHANGED << registryVars, scraperVars, ret, fatal, ch, ctx >>

\* Line 187: db.QueryContext returns a result set, the context still live.
ScrapeQueryRows(t, rows) ==
    /\ Alive
    /\ pc[t] = "sc_query"
    /\ ctx = "live"
    /\ pc' = [pc EXCEPT ![t] = "sc_next"]
    /\ frame' = [frame EXCEPT ![t].rows = rows]
    /\ UNCHANGED << registryVars, scraperVars, ret, fatal, ch, ctx >>

\* Lines 198-213: heartbeatRows.Next(), and for a row Scan, ParseFloat twice
\* and Itoa; return nil after the last row (line 229), the error of a row
\* that does not scan or parse.
ScrapeNext(t) ==
    /\ Alive
    /\ pc[t] = "sc_next"
    /\ LET f == frame[t]
       IN  IF f.i > Len(f.rows)
           THEN ScrapeReturn(t, TRUE, NoError)
           ELSE LET r == scanRow(f.rows[f.i])
                IN  IF r.err # NoError
                    THEN ScrapeReturn(t, TRUE, r.err)
                    ELSE /\ pc' = [pc EXCEPT ![t] = "sc_send_now"]
                         /\ frame' = [frame EXCEPT ![t].cur = r]
    /\ UNCHANGED << registryVars, scraperVars, ret, fatal, ch, ctx >>

\* Lines 215-220: ch <- the now metric; the send waits for room in the channel.
ScrapeSendNow(t) ==
    /\ Alive
    /\ pc[t] = "sc_send_now"
    /\ Len(ch) < ChanCap
    /\ ch' = Append(ch, nowMetric(frame[t].cur))
    /\ frame' = [frame EXCEPT ![t].emitted = Append(@, nowMetric(frame[t].cur))]
    /\ pc' = [pc EXCEPT ![t] = "sc_send_stored"]
    /\ UNCHANGED << registryVars, scraperVars, ret, fatal, ctx >>

\* Lines 221-226: ch <- the stored metric, and on to the next row.
ScrapeSendStored(t) ==
    /\ Alive
    /\ pc[t] = "sc_send_stored"
    /\ Len(ch) < ChanCap
    /\ ch' = Append(ch, storedMetric(frame[t].cur))
    /\ frame' = [frame EXCEPT ![t].emitted = Append(@, storedMetric(frame[t].cur)),
                              ![t].i = @ + 1]
    /\ pc' = [pc EXCEPT ![t] = "sc_next"]
    /\ UNCHANGED << registryVars, scraperVars, ret, fatal, ctx >>

\* The consumer of the output channel takes a metric.
Receive ==
    /\ Alive
    /\ ch # << >>
    /\ ch' = Tail(ch)
    /\ UNCHANGED << registryVars, scraperVars, pc, frame, ret, fatal, ctx >>

\* ------------------------------------------------------------ Scrape's specification

\* Rows of the heartbeat table, as the database returns their columns: two
\* that scan and parse (decimal; exponent, hexadecimal and a server id with
\* leading zeros), one whose ts is not a number, one whose now is out of
\* float64's range, one whose server id is not an integer, and one with an
\* underscore among the digits and an infinity.
ResultSets ==
    LET HeartbeatRows ==
            { [ts |-> << "1", "0", "0", ".", "5" >>, now |-> << "2", "0", "0", ".", "7", "5" >>,
               serverId |-> << "7" >>],
              [ts |-> << "1", "e", "3" >>, now |-> << "0", "x", "1", "p", "4" >>,
               serverId |-> << "0", "1", "2" >>],
              [ts |-> << "a", "b", "c" >>, now |-> << "2", "0", "0", ".", "7", "5" >>,
               serverId |-> << "7" >>],
              [ts |-> << "1", "0", "0", ".", "5" >>, now |-> << "1", "e", "4", "0", "0" >>,
               serverId |-> << "7" >>],
              [ts |-> << "1", "0", "0", ".", "5" >>, now |-> << "2", "0", "0", ".", "7", "5" >>,
               serverId |-> << "x" >>],
              [ts |-> << "1", "_", "0", "0", "0" >>, now |-> << "-", "I", "n", "f" >>,
               serverId |-> << "-", "0" >>] }
    IN  SeqsUpTo(HeartbeatRows, MaxRows)

NextScrape ==
    \/ ScrapeRLock("t1", "hbA")
    \/ rwRLock("t1")
    \/ rwRUnlock("t1")
    \/ ScrapeBuildQuery("t1")
    \/ ScrapeQueryFails("t1")
    \/ \E rows \in ResultSets : ScrapeQueryRows("t1", rows)
    \/ ScrapeNext("t1")
    \/ ScrapeSendNow("t1")
    \/ ScrapeSendStored("t1")
    \/ Receive

SpecScrape == Init /\ [][NextScrape]_vars

\* ------------------------------------------------------------ claims about Scrape

\* A row scans and parses: its server id is an integer of int64 and both
\* timestamps are numbers of float64.
GoodRow(row) ==
    /\ ~ScanInt(row.serverId).err
    /\ ~ParseFloat(row.ts).err
    /\ ~ParseFloat(row.now).err

\* The samples of good rows: per row, in order, the now gauge and then the
\* stored gauge, labelled with the server id.
RECURSIVE SamplesOf(_)
SamplesOf(rows) ==
    IF rows = << >> THEN << >>
    ELSE LET row == Head(rows)
             id == << Itoa(ScanInt(row.serverId).value) >>
         IN  << [desc |-> "HeartbeatNowDesc", valueType |-> "GaugeValue",
                 value |-> ParseFloat(row.now).value, labels |-> id],
                [desc |-> "HeartbeatStoredDesc", valueType |-> "GaugeValue",
                 value |-> ParseFloat(row.ts).value, labels |-> id] >>
             \o SamplesOf(Tail(rows))

\* C9: a Scrape whose query returned n rows that all scan and parse returns
\* nil having sent exactly 2n samples: for each row in order the now gauge and
\* then the stored gauge, with the row's parsed values and server id.
C9_TwoSamplesPerRowInOrder ==
    \A t \in Threads :
        (/\ ret[t].op = "Scrape"
         /\ ret[t].queried
         /\ \A k \in 1..Len(ret[t].rows) : GoodRow(ret[t].rows[k]))
        => /\ ret[t].err = NoError
           /\ Len(ret[t].emitted) = 2 * Len(ret[t].rows)
           /\ ret[t].emitted = SamplesOf(ret[t].rows)

\* The row storedTs = 100.5, nowTs = 200.75, serverId = 7 gave now-gauge 200.75
\* and then stored-gauge 100.5, both labelled "7".
C9_Witness ==
    \E t \in Threads :
        /\ ret[t].op = "Scrape"
        /\ ret[t].err = NoError
        /\ ret[t].rows = << [ts |-> << "1", "0", "0", ".", "5" >>,
                             now |-> << "2", "0", "0", ".", "7", "5" >>,
                             serverId |-> << "7" >>] >>
        /\ ret[t].emitted =
              << [desc |-> "HeartbeatNowDesc", valueType |-> "GaugeValue",
                  value |-> [kind |-> "finite", neg |-> FALSE, mant |-> << 803 >>, exp |-> -2],
                  labels |-> << << "7" >> >>],
                 [desc |-> "HeartbeatStoredDesc", valueType |-> "GaugeValue",
                  value |-> [kind |-> "finite", neg |-> FALSE, mant |-> << 201 >>, exp |-> -1],
                  labels |-> << << "7" >> >>] >>

\* The first row of a result set that does not scan or parse (Len + 1: none).
FirstBadRow(rows) ==
    IF \A k \in 1..Len(rows) : GoodRow(rows[k]) THEN Len(rows) + 1
    ELSE CHOOSE k \in 1..Len(rows) :
            /\ ~GoodRow(rows[k])
            /\ \A j \in 1..(k - 1) : GoodRow(rows[j])

\* C10: a Scrape that has returned after its query succeeded has sent both
\* samples of every row before the first one that does not scan or parse and
\* no sample of that row or of a later one, and it returned an error exactly
\* when there is such a row; the number of samples sent is even.  A Scrape
\* whose query failed returned the error having sent nothing.
C10_RowsEmittedWholeOrNotAtAll ==
    /\ \A t \in Threads :
          (ret[t].op = "Scrape" /\ ret[t].queried) =>
              LET k == FirstBadRow(ret[t].rows)
              IN  /\ (ret[t].err # NoError) <=> (k <= Len(ret[t].rows))
                  /\ ret[t].emitted = SamplesOf(SubSeq(ret[t].rows, 1, k - 1))
                  /\ Len(ret[t].emitted) % 2 = 0
    /\ \A t \in Threads :
          (ret[t].op = "Scrape" /\ ~ret[t].queried) =>
              (ret[t].err # NoError /\ ret[t].emitted = << >>)

C10_Witness ==
    \E t \in Threads :
        /\ ret[t].op = "Scrape"
        /\ ret[t].err = ParseError
        /\ Len(ret[t].rows) = 2
        /\ GoodRow(ret[t].rows[1])
        /\ ret[t].rows[2].ts = << "a", "b", "c" >>
        /\ ~ParseFloat(ret[t].rows[2].now).err
        /\ Len(ret[t].emitted) = 2

\* ------------------------------------------------------------ Scrape and its context

\* ctx.Err() of a cancelled context, as db.QueryContext and Rows.Scan report it.
CtxError == [kind |-> "context-canceled", scraper |-> "heartbeat", arg |-> ""]

\* The caller (or the deadline) cancels the context of the scrape cycle.
Cancel ==
    /\ Alive
    /\ ctx = "live"
    /\ ctx' = "cancelled"
    /\ UNCHANGED << registryVars, scraperVars, pc, frame, ret, fatal, ch >>

\* A Scrape that drops the error of db.QueryContext and iterates no rows.
MutScrapeQueryCancelled(t) ==
    /\ Alive
    /\ pc[t] = "sc_query"
    /\ ctx = "cancelled"
    /\ pc' = [pc EXCEPT ![t] = "sc_next"]
    /\ UNCHANGED << registryVars, scraperVars, frame, ret, fatal, ch, ctx >>

\* Lines 187-190: the context is cancelled before the query has completed;
\* db.QueryContext returns the context's error and Scrape returns it.
ScrapeQueryCancelled(t) ==
    /\ Alive
    /\ pc[t] = "sc_query"
    /\ ctx = "cancelled"
    /\ ScrapeReturn(t, FALSE, CtxError)
    /\ UNCHANGED << registryVars, scraperVars, ret, fatal, ch, ctx >>

\* Line 198 after the cancellation has closed the rows: heartbeatRows.Next()
\* returns false whatever rows are left, and Scrape returns nil (line 229);
\* heartbeatRows.Err() is not looked at.
ScrapeNextClosed(t) ==
    /\ Alive
    /\ pc[t] = "sc_next"
    /\ ctx = "cancelled"
    /\ ScrapeReturn(t, TRUE, NoError)
    /\ UNCHANGED << registryVars, scraperVars, ret, fatal, ch, ctx >>

\* Lines 198-201 when the cancellation closes the rows between Next() and
\* Scan: Scan returns the context's error.
ScrapeScanClosed(t) ==
    /\ Alive
    /\ pc[t] = "sc_next"
    /\ ctx = "cancelled"
    /\ frame[t].i <= Len(frame[t].rows)
    /\ ScrapeReturn(t, TRUE, CtxError)
    /\ UNCHANGED << registryVars, scraperVars, ret, fatal, ch, ctx >>

\* The result sets of the cancelled scrapes: rows that parse and one that does not.
CancelResultSets ==
    LET CancelRows ==
            { [ts |-> << "1", "0", "0", ".", "5" >>, now |-> << "2", "0", "0", ".", "7", "5" >>, serverId |-> << "7" >>],
              [ts |-> << "2", "0", "0", ".", "7", "5" >>, now |-> << "1", "0", "0", ".", "5" >>, serverId |-> << "0", "1", "2" >>],
              [ts |-> << "a", "b", "c" >>, now |-> << "1", "0", "0", ".", "5" >>, serverId |-> << "7" >>] }
    IN  SeqsUpTo(CancelRows, MaxRows)

\* One goroutine scrapes, the channel's consumer receives when it does, and
\* the context may be cancelled at any moment.
NextCancel ==
    \/ ScrapeRLock("t1", "hbA")
    \/ rwRLock("t1")
    \/ rwRUnlock("t1")
    \/ ScrapeBuildQuery("t1")
    \/ ScrapeQueryFails("t1")
    \/ \E rows \in CancelResultSets : ScrapeQueryRows("t1", rows)
    \/ ScrapeQueryCancelled("t1")
    \/ ScrapeNext("t1")
    \/ ScrapeNextClosed("t1")
    \/ ScrapeScanClosed("t1")
    \/ ScrapeSendNow("t1")
    \/ ScrapeSendStored("t1")
    \/ Receive
    \/ Cancel

\* db.QueryContext returns once its context is cancelled, and the goroutine
\* that called it then runs: the deferred RUnlock waits for nothing.  Nothing
\* is assumed of the channel's consumer.
SpecCancel ==
    Init /\ [][NextCancel]_vars
        /\ WF_vars(ScrapeQueryCancelled("t1")) /\ WF_vars(rwRUnlock("t1"))

\* C11: a Scrape whose context is cancelled while it waits for the query
\* leaves the query only by its return statement with the context's error,
\* having sent no sample; it returns what that statement gave, with its read
\* lock released and nothing sent meanwhile; and it does eventually return
\* the context's error.
C11_CancelledQueryReturnsCtxError ==
    /\ [][\A t \in Threads :
            /\ (pc[t] = "sc_query" /\ ctx = "cancelled" /\ pc'[t] # "sc_query") =>
                  /\ pc'[t] = "RUnlock.count"
                  /\ frame'[t].err = CtxError
                  /\ ~frame'[t].queried
                  /\ frame'[t].emitted = << >>
                  /\ ch' = ch
            /\ (frame[t].op = "Scrape" /\ pc'[t] = "idle") =>
                  /\ ret'[t].op = "Scrape"
                  /\ ret'[t].err = frame[t].err
                  /\ ret'[t].queried = frame[t].queried
                  /\ ret'[t].emitted = frame[t].emitted
                  /\ ch' = ch
                  /\ RWMutex'[frame[t].s] = ZeroRWMutex]_vars
    /\ \A t \in Threads :
          (pc[t] = "sc_query" /\ ctx = "cancelled")
              ~> (pc[t] = "idle" /\ ret[t].op = "Scrape" /\ ret[t].err = CtxError)

C11_Witness ==
    /\ ctx = "cancelled"
    /\ pc["t1"] = "idle"
    /\ ret["t1"].op = "Scrape"
    /\ ~ret["t1"].queried
    /\ ret["t1"].err = CtxError
    /\ ret["t1"].emitted = << >>
    /\ RWMutex["hbA"] = ZeroRWMutex

\* A Scrape that still has work to do: it waits for the query, or it iterates
\* a result set whose rows all scan and parse and has rows left to read.
ScrapeUnfinished(t) ==
    \/ pc[t] = "sc_query"
    \/ /\ pc[t] = "sc_next"
       /\ frame[t].i <= Len(frame[t].rows)
       /\ \A k \in 1..Len(frame[t].rows) : GoodRow(frame[t].rows[k])

\* C12: once the context is cancelled, a running Scrape returns the context's
\* error from wherever it is: a Scrape with work left that comes to a return
\* statement under a cancelled context returns that error, and a Scrape at a
\* send under a cancelled context can go on without the channel's consumer.
C12_CancelledScrapeReturnsCtxError ==
    /\ [][\A t \in Threads :
            (ScrapeUnfinished(t) /\ ctx = "cancelled" /\ pc'[t] = "RUnlock.count")
                => frame'[t].err = CtxError]_vars
    /\ [](\A t \in Threads :
            (pc[t] \in {"sc_send_now", "sc_send_stored"} /\ ctx = "cancelled")
                => ENABLED (ScrapeSendNow(t) \/ ScrapeSendStored(t)))

\* ------------------------------------------------------------ a scraper shared by goroutines

\* The result sets of the shared scraper's scrapes.
SharedResultSets ==
    { << >>,
      << [ts |-> << "1", "0", "0", ".", "5" >>, now |-> << "2", "0", "0", ".", "7", "5" >>, serverId |-> << "7" >>] >>,
      << [ts |-> << "1", "0", "0", ".", "5" >>, now |-> << "2", "0", "0", ".", "7", "5" >>, serverId |-> << "7" >>],
         [ts |-> << "a", "b", "c" >>, now |-> << "1", "0", "0", ".", "5" >>, serverId |-> << "7" >>] >> }

\* The argument lists of the operator: those of the bootstrap's clients, and
\* one of two accepted arguments.
SharedArgLists ==
    BootstrapArgLists \cup
        { << [name |-> heartbeatDatabase, value |-> StringValue("mydb")],
             [name |-> heartbeatTable, value |-> StringValue("mydb")] >> }

\* t1 runs the scrape cycles of hbA and reads its arguments; t2 is the
\* operator's goroutine: it registers hbA, reconfigures it, reads its
\* arguments and toggles it in the registry.
NextShared ==
    \/ ScrapeRLock("t1", "hbA")
    \/ ScrapeBuildQuery("t1")
    \/ ScrapeQueryFails("t1")
    \/ \E rows \in SharedResultSets : ScrapeQueryRows("t1", rows)
    \/ ScrapeNext("t1")
    \/ ScrapeSendNow("t1")
    \/ ScrapeSendStored("t1")
    \/ Receive
    \/ \E s \in HeartbeatScrapers : ArgsRLock("t1", s)
    \/ ArgsRead("t1")
    \/ \E t \in Threads : rwRLock(t)
    \/ \E t \in Threads : rwRUnlock(t)
    \/ \E e \in BOOLEAN : MustRegisterCall("t2", "hbA", e)
    \/ RegisterCheck("t2")
    \/ RegisterWrite("t2")
    \/ RuntimeFatal
    \/ \E a \in SharedArgLists : ConfigureLock("t2", "hbA", a)
    \/ rwLock("t2")
    \/ ConfigureLoop("t2")
    \/ rwUnlock("t2")
    \/ ArgsRLock("t2", "hbA")
    \/ ArgsRead("t2")
    \/ \E t \in Threads : IsEnabledLock(t, "heartbeat")
    \/ \E t \in Threads : IsEnabledBody(t)
    \/ \E e \in BOOLEAN : SetEnabledLock("t2", "heartbeat", e)
    \/ SetEnabledBody("t2")

SpecShared == Init /\ [][NextShared]_vars

\* C13: while a Scrape of a scraper waits for its query or at a send to the
\* output channel, no Configure(...) on that scraper sleeps in its Lock()
\* until that Scrape is over, and no Args() sleeps in its RLock() behind such
\* a Configure.
C13_ConfigureArgsNeverWaitForIO ==
    \A t \in Threads, u \in Threads, s \in HeartbeatScrapers :
        (/\ t # u
         /\ Alive
         /\ pc[t] \in {"sc_query", "sc_send_now", "sc_send_stored"}
         /\ frame[t].s = s
         /\ frame[u].op \in {"Configure", "Args"}
         /\ frame[u].s = s)
        => /\ pc[u] # "Lock.sleep"
           /\ pc[u] = "RLock.sleep" =>
                 ~\E v \in Threads :
                     frame[v].op = "Configure" /\ frame[v].s = s /\ pc[v] = "Lock.sleep"

\* ------------------------------------------------------------ AllScrapers, AllScraperFlags

\* AllScraperFlags, lines 58-60: the bindings of one entry are put into
\* flags, replacing those of the same flag name.
mergeFlags(flags, entryFlags) ==
    [f \in DOMAIN flags \cup DOMAIN entryFlags |->
        IF f \in DOMAIN entryFlags THEN entryFlags[f] ELSE flags[f]]

\* AllScraperFlags() is called; line 56.  The registry at the call is
\* remembered, to tell the calls during which it did not change.
AllFlagsCall(t) ==
    /\ Alive
    /\ pc[t] = "idle"
    /\ pc' = [pc EXCEPT ![t] = "flags_iter"]
    /\ frame' = [frame EXCEPT ![t] =
                    [op |-> "AllScraperFlags", visited |-> {}, flags |-> << >>,
                     reg |-> scraperRegistry]]
    /\ ret' = [ret EXCEPT ![t] = NoRet]
    /\ UNCHANGED << registryVars, scraperVars, fatal, ch, ctx >>

\* Lines 57-62: one turn of the range over the map, or the return after the
\* range.  The range produces every entry that was in the map when it began,
\* in an order the runtime chooses; an entry inserted meanwhile (line 98,
\* which takes no lock) may be produced or skipped, so the range can end as
\* soon as the entries it began with are produced.
AllFlagsIter(t) ==
    /\ Alive
    /\ pc[t] = "flags_iter"
    /\ \/ /\ DOMAIN frame[t].reg \subseteq frame[t].visited
          /\ Return(t, [op |-> "AllScraperFlags", flags |-> frame[t].flags,
                        stable |-> frame[t].reg = scraperRegistry,
                        reg |-> scraperRegistry, binder |-> lastBinder])
       \/ /\ \E n \in DOMAIN scraperRegistry \ frame[t].visited :
                frame' = [frame EXCEPT
                             ![t].visited = @ \cup {n},
                             ![t].flags = mergeFlags(@, scraperRegistry[n].flags)]
          /\ UNCHANGED << pc, ret >>
    /\ UNCHANGED << registryVars, scraperVars, fatal, ch, ctx >>

\* AllScrapers() is called; line 36.
AllScrapersCall(t) ==
    /\ Alive
    /\ pc[t] = "idle"
    /\ pc' = [pc EXCEPT ![t] = "all_iter"]
    /\ frame' = [frame EXCEPT ![t] =
                    [op |-> "AllScrapers", visited |-> {}, all |-> << >>,
                     reg |-> scraperRegistry]]
    /\ ret' = [ret EXCEPT ![t] = NoRet]
    /\ UNCHANGED << registryVars, scraperVars, fatal, ch, ctx >>

\* Lines 37-41: one turn of the range over the map, or the return after the
\* range, which ends as that of AllScraperFlags does.
AllScrapersIter(t) ==
    /\ Alive
    /\ pc[t] = "all_iter"
    /\ \/ /\ DOMAIN frame[t].reg \subseteq frame[t].visited
          /\ Return(t, [op |-> "AllScrapers", all |-> frame[t].all,
                        stable |-> frame[t].reg = scraperRegistry])
       \/ /\ \E n \in DOMAIN scraperRegistry \ frame[t].visited :
                frame' = [frame EXCEPT
                             ![t].visited = @ \cup {n},
                             ![t].all = Append(@, scraperRegistry[n].scraper)]
          /\ UNCHANGED << pc, ret >>
    /\ UNCHANGED << registryVars, scraperVars, fatal, ch, ctx >>

\* t1 registers scrapers, among them two that carry a flag of the same name
\* (the utc flag of "heartbeat" and the enable flag of "heartbeat.utc"); t2
\* lists the scrapers and their flags.
NextFlags ==
    \/ \E s \in {"hbA", "gs"} \cup CollidingScrapers, e \in BOOLEAN : RegisterCall("t1", s, e)
    \/ RegisterCheck("t1")
    \/ RegisterWrite("t1")
    \/ RuntimeFatal
    \/ AllFlagsCall("t2")
    \/ AllFlagsIter("t2")
    \/ AllScrapersCall("t2")
    \/ AllScrapersIter("t2")

SpecFlags == Init /\ [][NextFlags]_vars

\* The flag names bound by the scrapers registered in reg.
RegisteredFlagNames(reg) == UNION {DOMAIN reg[n].flags : n \in DOMAIN reg}

\* C14: AllScraperFlags(), when the registry is the same at its call and at
\* its return, returns a binding for exactly the flag names the registered
\* scrapers bind, and for each the binding of the scraper registered last
\* among those that bind it.
C14_AllFlagsLaterRegistrationWins ==
    \A t \in Threads :
        (ret[t].op = "AllScraperFlags" /\ ret[t].stable)
        => /\ DOMAIN ret[t].flags = RegisteredFlagNames(ret[t].reg)
           /\ \A f \in DOMAIN ret[t].flags :
                 ret[t].flags[f] = ret[t].reg[Name(ret[t].binder[f])].flags[f]

\* ------------------------------------------------------------ claims about the registry's lifetime

\* C15: no step removes a registered name or changes the scraper that
\* LookupScraper returns for it; the set of registered names only grows.
C15_NoDeregistration ==
    [][\A n \in DOMAIN scraperRegistry :
          /\ n \in DOMAIN scraperRegistry'
          /\ LookupScraper(scraperRegistry', n) = LookupScraper(scraperRegistry, n)]_vars

\* ------------------------------------------------------------ Enabled, SetEnabled

\* s.SetEnabled(enabled), line 119: s.enabled.Store(enabled).
storeEnabled(flags, s, enabled) == [flags EXCEPT ![s] = enabled]

\* s.SetEnabled(enabled) is called.
ScraperSetEnabledCall(t, s, enabled) ==
    /\ Alive
    /\ pc[t] = "idle"
    /\ pc' = [pc EXCEPT ![t] = "se_store"]
    /\ frame' = [frame EXCEPT ![t] = [op |-> "SetEnabled", s |-> s, enabled |-> enabled]]
    /\ ret' = [ret EXCEPT ![t] = NoRet]
    /\ UNCHANGED << registryVars, scraperVars, fatal, ch, ctx >>

\* Line 119: the atomic store, and the return.
ScraperSetEnabledStore(t) ==
    /\ Alive
    /\ pc[t] = "se_store"
    /\ enabledFlag' = storeEnabled(enabledFlag, frame[t].s, frame[t].enabled)
    /\ Return(t, [op |-> "SetEnabled", s |-> frame[t].s, enabled |-> frame[t].enabled])
    /\ UNCHANGED << registryVars, config, RWMutex, readLocks, lastConfigured, fatal, ch, ctx >>

\* s.Enabled() is called.
ScraperEnabledCall(t, s) ==
    /\ Alive
    /\ pc[t] = "idle"
    /\ pc' = [pc EXCEPT ![t] = "en_load"]
    /\ frame' = [frame EXCEPT ![t] = [op |-> "Enabled", s |-> s]]
    /\ ret' = [ret EXCEPT ![t] = NoRet]
    /\ UNCHANGED << registryVars, scraperVars, fatal, ch, ctx >>

\* Line 114: the atomic load, and the return.
ScraperEnabledLoad(t) ==
    /\ Alive
    /\ pc[t] = "en_load"
    /\ Return(t, [op |-> "Enabled", s |-> frame[t].s, result |-> enabledFlag[frame[t].s]])
    /\ UNCHANGED << registryVars, scraperVars, fatal, ch, ctx >>

\* t1 registers scrapers and toggles them in the registry; t2 sets and reads
\* the scrapers' own flags and asks the registry.
NextEnable ==
    \/ \E s \in Scrapers, e \in BOOLEAN : RegisterCall("t1", s, e)
    \/ RegisterCheck("t1")
    \/ RegisterWrite("t1")
    \/ RuntimeFatal
    \/ \E n \in LookupNames, e \in BOOLEAN : SetEnabledLock("t1", n, e)
    \/ SetEnabledBody("t1")
    \/ \E s \in HeartbeatScrapers, e \in BOOLEAN : ScraperSetEnabledCall("t2", s, e)
    \/ ScraperSetEnabledStore("t2")
    \/ \E s \in HeartbeatScrapers : ScraperEnabledCall("t2", s)
    \/ ScraperEnabledLoad("t2")
    \/ \E n \in LookupNames : IsEnabledLock("t2", n)
    \/ IsEnabledBody("t2")

SpecEnable == Init /\ [][NextEnable]_vars

\* C16: the step of SetScraperEnabled(name, v) sets the enabled flag of the
\* entry of name to v and changes nothing else: no other field of that entry,
\* no other entry, no scraper's own flag or configuration.  The step of
\* s.SetEnabled(v) sets the own flag of s to v and changes no other scraper's
\* flag, no configuration and nothing in the registry.  The step of
\* registerScraper(s, e) that writes the entry gives it the enabled flag e and
\* changes no scraper's own flag.
C16_EnablementsIndependent ==
    [][\A t \in Threads :
          /\ (pc[t] = "set_body" /\ pc'[t] = "idle") =>
                /\ DOMAIN scraperRegistry' = DOMAIN scraperRegistry
                /\ \A n \in DOMAIN scraperRegistry :
                      scraperRegistry'[n] =
                         IF n = frame[t].name
                         THEN [scraperRegistry[n] EXCEPT !.enabled = frame[t].enabled]
                         ELSE scraperRegistry[n]
                /\ enabledFlag' = enabledFlag
                /\ config' = config
          /\ (pc[t] = "se_store" /\ pc'[t] = "idle") =>
                /\ enabledFlag'[frame[t].s] = frame[t].enabled
                /\ \A s \in ConfigurableScrapers \ {frame[t].s} : enabledFlag'[s] = enabledFlag[s]
                /\ config' = config
                /\ scraperRegistry' = scraperRegistry
                /\ \A n \in LookupNames :
                      IsScraperEnabled(scraperRegistry', n) = IsScraperEnabled(scraperRegistry, n)
          /\ (pc[t] = "reg_write" /\ pc'[t] = "idle") =>
                /\ scraperRegistry'[Name(frame[t].s)].enabled = frame[t].enabled
                /\ enabledFlag' = enabledFlag]_vars

\* hbA is registered and disabled in the registry by SetScraperEnabled while
\* its own flag was set by SetEnabled(true), global_status being registered
\* enabled beside it.
C16_Witness ==
    /\ ret["t1"] = [op |-> "SetScraperEnabled", name |-> "heartbeat", enabled |-> FALSE,
                    registered |-> TRUE]
    /\ ret["t2"] = [op |-> "SetEnabled", s |-> "hbA", enabled |-> TRUE]
    /\ DOMAIN scraperRegistry = {"heartbeat", "global_status"}
    /\ scraperRegistry["heartbeat"].scraper = "hbA"
    /\ ~scraperRegistry["heartbeat"].enabled
    /\ scraperRegistry["global_status"].enabled
    /\ enabledFlag["hbA"]
    /\ ~enabledFlag["hbB"]

\* ------------------------------------------------------------ claims about concurrent access

\* C17: in no reachable state is a registerScraper about to write the
\* registry table while another goroutine is reading or writing it
\* (LookupScraper, AllScrapers, AllScraperFlags, IsScraperEnabled,
\* SetScraperEnabled or another registerScraper).
C17_NoConcurrentTableAccess == ~MapRace

\* ------------------------------------------------------------ mustRegisterScraperWithDefaults: its outcomes

\* Both goroutines bootstrap scrapers: a heartbeat scraper, a scraper that is
\* not Configurable and one whose declared defaults do not validate.
NextMust ==
    \/ \E t \in Threads, s \in {"hbA", "gs"} \cup BrokenScrapers, e \in BOOLEAN :
          MustRegisterCall(t, s, e)
    \/ \E t \in Threads : rwLock(t)
    \/ \E t \in Threads : ConfigureLoop(t)
    \/ \E t \in Threads : rwUnlock(t)
    \/ \E t \in Threads : MustPanic(t)
    \/ \E t \in Threads : RegisterCheck(t)
    \/ \E t \in Threads : RegisterWrite(t)
    \/ RuntimeFatal

SpecMust == Init /\ [][NextMust]_vars

\* The program points inside mustRegisterScraperWithDefaults.
MustPoints ==
    {"Lock.w", "Lock.count", "Lock.wait", "Lock.sleep", "cfg_loop",
     "Unlock.count", "Unlock.wake", "Unlock.w", "must_panic", "reg_check", "reg_write"}

\* The configuration the declared defaults of s give.
DefaultConfig(s) == Applied(ZeroConfig, defaultArgs(ArgDefinitions(s)))

\* C18: a mustRegisterScraperWithDefaults(s, enabled) ends in one of two
\* ways.  It returns, and its last step wrote the entry of s, with the given
\* enabled flag, under the name of s, the declared defaults of a Configurable
\* s being its configuration.  Or it panics, with the error of the defaults
\* (and then this call never entered registerScraper) or with the
\* duplicate-name error of a name that is registered, and the panicking step
\* leaves the registry as it was.  A scraper whose defaults fail never
\* reaches registerScraper and never gets into the registry.
C18_MustRegisterTwoOutcomes ==
    /\ [][\A t \in Threads :
            (pc[t] \in MustPoints /\ pc'[t] # pc[t]) =>
                \/ pc'[t] \in MustPoints
                \/ /\ pc'[t] = "idle"
                   /\ pc[t] = "reg_write"
                   /\ ret'[t] = [op |-> "mustRegisterScraperWithDefaults", s |-> frame[t].s,
                                 enabled |-> frame[t].enabled, err |-> NoError]
                   /\ scraperRegistry'[Name(frame[t].s)] = newEntry(frame[t].s, frame[t].enabled)
                   /\ IsConfigurable(frame[t].s) => config'[frame[t].s] = DefaultConfig(frame[t].s)
                \/ /\ pc'[t] = "panicked"
                   /\ fatal'.kind = "panic"
                   /\ scraperRegistry' = scraperRegistry
                   /\ \/ /\ pc[t] = "must_panic"
                         /\ fatal'.err.kind \in {"wrong-type", "unknown-argument"}
                         /\ fatal'.err = frame[t].err
                         /\ regStarted' = regStarted
                      \/ /\ pc[t] = "reg_check"
                         /\ fatal'.err = DuplicateError(Name(frame[t].s))
                         /\ Name(frame[t].s) \in DOMAIN scraperRegistry]_vars
    /\ [](\A s \in BrokenScrapers :
            /\ regStarted[s] = 0
            /\ \A n \in DOMAIN scraperRegistry : scraperRegistry[n].scraper # s)

\* One goroutine has bootstrapped hbA, enabled, with its defaults; the other's
\* bootstrap of hbBad has panicked on the utc default, after the database
\* default was applied, and hbBad never reached registerScraper.
C18_Witness ==
    \E t \in Threads, u \in Threads :
        /\ ret[t] = [op |-> "mustRegisterScraperWithDefaults", s |-> "hbA",
                     enabled |-> TRUE, err |-> NoError]
        /\ scraperRegistry["heartbeat"] = newEntry("hbA", TRUE)
        /\ config["hbA"] = [database |-> "heartbeat", table |-> "heartbeat", utc |-> FALSE]
        /\ pc[u] = "panicked"
        /\ frame[u].s = "hbBad"
        /\ fatal = [kind |-> "panic",
                    err |-> [kind |-> "wrong-type", scraper |-> "heartbeat", arg |-> "utc"]]
        /\ config["hbBad"] = [database |-> "heartbeat", table |-> "", utc |-> FALSE]
        /\ regStarted["hbBad"] = 0

\* ------------------------------------------------------------ claims about the scraper's lock

\* A Configure of s is between its Lock and its Unlock.
InConfigure(s) ==
    \E u \in Threads :
        /\ frame[u].op = "Configure"
        /\ frame[u].s = s
        /\ pc[u] \in {"cfg_loop", "Unlock.count"}

\* A Scrape of s is between its RLock and its RUnlock.
InScrape(s) ==
    \E u \in Threads :
        /\ frame[u].op = "Scrape"
        /\ frame[u].s = s
        /\ pc[u] \in {"sc_build", "sc_query", "sc_next", "sc_send_now", "sc_send_stored",
                      "RUnlock.count"}

\* C19: the step by which Args() completes the snapshot it returns, and the
\* step by which Scrape completes its query, happen while no Configure of
\* that scraper is between its Lock and its Unlock, and what they have read
\* is the configuration of that moment; and no step changes the configuration
\* of a scraper while a Scrape of it is in progress.
C19_ConfigReadsAtomic ==
    [][/\ \A t \in Threads :
            (pc[t] = "args_read" /\ pc'[t] = "RUnlock.count") =>
                /\ ~InConfigure(frame'[t].s)
                /\ frame'[t].args = Args(config[frame'[t].s])
       /\ \A t \in Threads :
            (pc[t] = "sc_build" /\ pc'[t] = "sc_query") =>
                /\ ~InConfigure(frame'[t].s)
                /\ frame'[t].query = heartbeatQuery(config[frame'[t].s])
       /\ \A s \in ConfigurableScrapers :
            config'[s] # config[s] => ~InScrape(s)]_vars

\* A Scrape of hbA waits for its query, built from the configuration a whole
\* Configure(database = "mydb", table = "mydb") left, while the next
\* Configure of hbA sleeps in its Lock() behind that Scrape.
C19_Witness ==
    /\ pc["t1"] = "sc_query"
    /\ frame["t1"].s = "hbA"
    /\ config["hbA"] = [database |-> "mydb", table |-> "mydb", utc |-> FALSE]
    /\ frame["t1"].query = heartbeatQuery(config["hbA"])
    /\ frame["t2"].op = "Configure"
    /\ frame["t2"].s = "hbA"
    /\ pc["t2"] = "Lock.sleep"

\* ------------------------------------------------------------ a scraper whose lock the clients use

\* The behaviours of a scraper whose holders call, besides Args, Configure
\* and Scrape, the methods its embedded RWMutex gives it: a Lock() kept
\* leaves Args asleep in RLock, an RLock() kept leaves Configure asleep in
\* Lock, an Unlock() or RUnlock() of a lock not taken is fatal, and TryLock
\* and TryRLock return false instead of waiting.

\* The argument list of the operator: two accepted arguments.
ExposedArgLists ==
    { << [name |-> heartbeatDatabase, value |-> StringValue("mydb")],
         [name |-> heartbeatTable, value |-> StringValue("mydb")] >> }

\* t1 scrapes hbA and reads its arguments, t2 reconfigures it; both ask the
\* registry whether it is enabled, and both call the methods hbA has from its
\* embedded RWMutex.
NextExposed ==
    \/ ScrapeRLock("t1", "hbA")
    \/ ScrapeBuildQuery("t1")
    \/ ScrapeQueryFails("t1")
    \/ ArgsRLock("t1", "hbA")
    \/ ArgsRead("t1")
    \/ \E a \in ExposedArgLists : ConfigureLock("t2", "hbA", a)
    \/ ConfigureLoop("t2")
    \/ \E t \in Threads : IsEnabledLock(t, "heartbeat")
    \/ \E t \in Threads : IsEnabledBody(t)
    \/ \E t \in Threads : Lock(t, "hbA")
    \/ \E t \in Threads : Unlock(t, "hbA")
    \/ \E t \in Threads : RLock(t, "hbA")
    \/ \E t \in Threads : RUnlock(t, "hbA")
    \/ \E t \in Threads : TryLock(t, "hbA")
    \/ \E t \in Threads : TryRLock(t, "hbA")
    \/ \E t \in Threads : rwLock(t)
    \/ \E t \in Threads : rwUnlock(t)
    \/ \E t \in Threads : rwRLock(t)
    \/ \E t \in Threads : rwRUnlock(t)
    \/ \E t \in Threads : rwTryLock(t)
    \/ \E t \in Threads : rwTryRLock(t)

SpecExposed == Init /\ [][NextExposed]_vars

\* The goroutine t has the lock of scraper s or waits for it: it has the
\* writers' mutex (from Configure, Lock or TryLock); or it is a reader
\* counted and not given back, from Args or Scrape or from RLock or TryRLock
\* on the scraper; or it is inside Lock(), or asleep in RLock() behind a
\* writer.
HoldsScraperLock(t, s) ==
    \/ RWMutex[s].w = t
    \/ readLocks[t][s] > 0
    \/ /\ pc[t] \in {"Lock.w", "Lock.count", "Lock.wait", "Lock.sleep", "RLock.sleep"}
       /\ frame[t].s = s

\* C20: no goroutine holds registryMu while it holds or waits for a
\* scraper's lock; and the holder of registryMu is inside IsScraperEnabled or
\* SetScraperEnabled, whose next step, which unlocks registryMu, waits for
\* nothing, whatever goroutine holds a scraper's lock meanwhile.
C20_LocksIndependent ==
    \A t \in Threads :
        /\ \A s \in ConfigurableScrapers : ~(registryMu = t /\ HoldsScraperLock(t, s))
        /\ (registryMu = t /\ Alive) =>
              /\ pc[t] \in {"is_body", "set_body"}
              /\ ENABLED (IsEnabledBody(t) \/ SetEnabledBody(t))

\* t2 holds registryMu inside SetScraperEnabled while t1's Scrape of hbA,
\* holding the scraper's read lock, waits at a send on the full channel.
C20_Witness ==
    /\ registryMu = "t2"
    /\ pc["t2"] = "set_body"
    /\ pc["t1"] = "sc_send_stored"
    /\ Len(ch) = ChanCap
    /\ HoldsScraperLock("t1", "hbA")
    /\ ~HoldsScraperLock("t2", "hbA")

====
